---- MODULE Spec2Model ----
(***************************************************************************)
(* A model of the ringtone editor: the region renderer                     *)
(* (processAudioRegion in components/WaveformEditor.tsx), the WAV encoder  *)
(* (services/audioUtils.ts) and the export / preview handlers of the       *)
(* WaveformEditor component.                                               *)
(*                                                                         *)
(* Numbers.  JavaScript numbers are modelled as exact rationals <<n, d>>   *)
(* with d > 0 and gcd(n, d) = 1.  Slider values (speed, volume, fades) are *)
(* multiples of 0.1, kept as integers in tenths.  Positions on the source  *)
(* timeline (region start and end, drag distances) are integers in         *)
(* twentieths of a second, so that 0.1 s and 0.05 s are both on the grid.  *)
(* Math.pow(2, pitch / 12) is tabulated to three decimals (exact for       *)
(* pitch = -12, 0, 12).                                                    *)
(***************************************************************************)
EXTENDS Integers, Sequences, FiniteSets, TLC

VARIABLES
    rin,        \* renderer check: the inputs of one processAudioRegion call
    rout,       \* renderer check: what that call produced
    win,        \* encoder check: the buffer and options of one audioBufferToWav call
    wout,       \* encoder check: the samples serialized and the blob returned
    min,        \* MP3 check: the buffer of one audioBufferToMp3 call and what lamejs does
    mout,       \* MP3 check: what that call did and returned
    audioBuffer,        \* the audioBuffer prop: [numberOfChannels, sampleRate, length]
    lamejs,             \* window.lamejs is loaded
    isReady,            \* useState: the waveform is ready
    regionRef,          \* regionRef.current: [start, end]
    dragRef,            \* dragRef.current: [target, startTimeState]
    fx,                 \* useState: speed, pitch, volume, fadeInDuration, fadeOutDuration
    exportFormat,       \* useState: "wav" or "mp3"
    isPlaying,          \* useState
    isPreviewing,       \* useState
    wsPlaying,          \* the WaveSurfer media is playing
    wsEvents,           \* WaveSurfer 'play' / 'pause' events emitted and not yet handled
    previewSourceRef,   \* previewSourceRef.current: a preview's number, or 0 for null
    previewContextRef,  \* previewContextRef.current: a preview's number, or 0 for null
    animationFrameRef,  \* animationFrameRef.current: a preview's number, or 0 for null
    currentTime,        \* useState: the playhead shown
    wsTime,             \* the WaveSurfer playhead, as set by ws.setTime
    previews,           \* the previews started: their nodes and what tick() captured
    pending,            \* renders in flight: startRendering() promises not yet settled
    runs,               \* history: each handleDownload / handlePreviewEffect run
    budget              \* the number of inputs and animation frames so far

editorVars ==
    <<audioBuffer, lamejs, isReady, regionRef, dragRef, fx, exportFormat, isPlaying,
      isPreviewing, wsPlaying, wsEvents, previewSourceRef, previewContextRef,
      animationFrameRef, currentTime, wsTime, previews, pending, runs, budget>>

vars == <<rin, rout, win, wout, min, mout, editorVars>>

renderVars == <<rin, rout>>

wavVars == <<win, wout>>

mp3Vars == <<min, mout>>

----------------------------------------------------------------------------
(* Exact rational arithmetic                                               *)

Abs(x) == IF x < 0 THEN -x ELSE x

RECURSIVE GCD(_, _)
GCD(a, b) == IF b = 0 THEN a ELSE GCD(b, a % b)

\* the rational n/d in lowest terms with a positive denominator
Rat(n, d) ==
    LET g == GCD(Abs(n), Abs(d))
        s == IF d < 0 THEN -1 ELSE 1
    IN  <<(s * n) \div g, (s * d) \div g>>

RInt(k) == <<k, 1>>

RMul(a, b) ==
    LET g1 == GCD(Abs(a[1]), b[2])
        g2 == GCD(Abs(b[1]), a[2])
    IN  Rat((a[1] \div g1) * (b[1] \div g2), (a[2] \div g2) * (b[2] \div g1))

RInv(a) == IF a[1] > 0 THEN <<a[2], a[1]>> ELSE <<-a[2], -a[1]>>

RDiv(a, b) == RMul(a, RInv(b))

RAdd(a, b) ==
    LET g == GCD(a[2], b[2])
    IN  Rat(a[1] * (b[2] \div g) + b[1] * (a[2] \div g), (a[2] \div g) * b[2])

RNeg(a) == <<-a[1], a[2]>>

RSub(a, b) == RAdd(a, RNeg(b))

RLe(a, b) ==
    LET g == GCD(a[2], b[2])
    IN  a[1] * (b[2] \div g) <= b[1] * (a[2] \div g)

RLt(a, b) == ~RLe(b, a)

RMin(a, b) == IF RLe(a, b) THEN a ELSE b

RMax(a, b) == IF RLe(a, b) THEN b ELSE a

\* truncation toward zero (ToInteger of the ECMAScript / WebIDL conversions)
Trunc(a) == IF a[1] >= 0 THEN a[1] \div a[2] ELSE -((-a[1]) \div a[2])

\* Math.round: the integer nearest to a, halves rounded up
Round(a) == (2 * a[1] + a[2]) \div (2 * a[2])

\* trunc(a * k) for a >= 0 and an integer k >= 0, the product taken in two parts
\* (whole and fractional part of a) so that no intermediate value leaves 32 bits
TruncTimes(a, k) == (a[1] \div a[2]) * k + ((a[1] % a[2]) * k) \div a[2]

\* Math.round(a * k) for a >= 0 and an integer k >= 0
RoundTimes(a, k) ==
    LET rem == ((a[1] % a[2]) * k) % a[2]
    IN  TruncTimes(a, k) + (IF 2 * rem >= a[2] THEN 1 ELSE 0)

\* the number k / 10 of a slider that holds k tenths
Tenths(k) == Rat(k, 10)

\* seconds from a timeline position of k twentieths of a second
Seconds(k) == Rat(k, 20)

----------------------------------------------------------------------------
(* The effect sliders (tenths; pitch in semitones)                         *)

MinSpeed == 5
MaxSpeed == 20
MaxPitch == 12
MinVolume == 5
MaxVolume == 20
MaxFade == 50

\* Math.pow(2, k / 12) * 1000, rounded, for k = -12 .. 12
DetuneTable ==
    <<500, 530, 561, 595, 630, 667, 707, 749, 794, 841, 891, 944,
      1000,
      1059, 1122, 1189, 1260, 1335, 1414, 1498, 1587, 1682, 1782, 1888, 2000>>

Pow2Twelfths(pitch) == Rat(DetuneTable[pitch + MaxPitch + 1], 1000)

----------------------------------------------------------------------------
(* The gain AudioParam's automation timeline                               *)

SetValueEvent(v, t) == [type |-> "setValueAtTime", value |-> v, time |-> t]

RampEvent(v, t) == [type |-> "linearRampToValueAtTime", value |-> v, time |-> t]

\* the number of events of evs scheduled at or before time t
EventsUpTo(evs, t) == Cardinality({i \in 1..Len(evs) : RLe(evs[i].time, t)})

\* an automation call: the event goes after every event whose time is not later
InsertEvent(evs, e) ==
    LET k == EventsUpTo(evs, e.time)
    IN  SubSeq(evs, 1, k) \o <<e>> \o SubSeq(evs, k + 1, Len(evs))

\* AudioParam.defaultValue of GainNode.gain
DefaultGain == RInt(1)

\* the value of the automated parameter at time t
GainAt(evs, t) ==
    LET k == EventsUpTo(evs, t)
    IN  IF k = 0 THEN DefaultGain
        ELSE IF k < Len(evs) /\ evs[k + 1].type = "linearRampToValueAtTime"
        THEN LET v0 == evs[k].value
                 t0 == evs[k].time
                 v1 == evs[k + 1].value
                 t1 == evs[k + 1].time
             IN  RAdd(v0, RMul(RSub(v1, v0), RDiv(RSub(t, t0), RSub(t1, t0))))
        ELSE evs[k].value

----------------------------------------------------------------------------
(* processAudioRegion                                                      *)

IdleResult == [kind |-> "idle"]

NullResult == [kind |-> "null"]

ThrowResult == [kind |-> "throw"]

\* a fade-in that leaves the gain at 0 when no fade-in is asked for
ScheduleFadeInNoReset(evs, fadeVolume, fadeInDuration, outputDuration) ==
    IF fadeInDuration > 0
    THEN LET safeFadeIn == RMin(Tenths(fadeInDuration), RDiv(outputDuration, RInt(2)))
         IN  InsertEvent(evs, RampEvent(fadeVolume, safeFadeIn))
    ELSE evs

\* a fade-in that ramps over the requested time, however short the output
ScheduleFadeInUnclamped(evs, fadeVolume, fadeInDuration, outputDuration) ==
    IF fadeInDuration > 0
    THEN InsertEvent(evs, RampEvent(fadeVolume, Tenths(fadeInDuration)))
    ELSE InsertEvent(evs, SetValueEvent(fadeVolume, RInt(0)))

\* the fade-in part of the envelope, after gain.setValueAtTime(0, 0)
ScheduleFadeIn(evs, fadeVolume, fadeInDuration, outputDuration) ==
    IF fadeInDuration > 0
    THEN LET safeFadeIn == RMin(Tenths(fadeInDuration), RDiv(outputDuration, RInt(2)))
         IN  InsertEvent(evs, RampEvent(fadeVolume, safeFadeIn))
    ELSE InsertEvent(evs, SetValueEvent(fadeVolume, RInt(0)))

\* a fade-out without the setValueAtTime that holds the volume up to its start
ScheduleFadeOutNoAnchor(evs, fadeVolume, fadeOutDuration, outputDuration) ==
    IF fadeOutDuration > 0
    THEN InsertEvent(evs, RampEvent(RInt(0), outputDuration))
    ELSE evs

\* a fade-out that starts the requested time before the end, however short
\* the output
ScheduleFadeOutUnclamped(evs, fadeVolume, fadeOutDuration, outputDuration) ==
    IF fadeOutDuration > 0
    THEN LET fadeOutStart == RSub(outputDuration, Tenths(fadeOutDuration))
         IN  InsertEvent(InsertEvent(evs, SetValueEvent(fadeVolume, fadeOutStart)),
                         RampEvent(RInt(0), outputDuration))
    ELSE evs

\* the fade-out part of the envelope
ScheduleFadeOut(evs, fadeVolume, fadeOutDuration, outputDuration) ==
    IF fadeOutDuration > 0
    THEN LET safeFadeOut == RMin(Tenths(fadeOutDuration), RDiv(outputDuration, RInt(2)))
             fadeOutStart == RSub(outputDuration, safeFadeOut)
         IN  InsertEvent(InsertEvent(evs, SetValueEvent(fadeVolume, fadeOutStart)),
                         RampEvent(RInt(0), outputDuration))
    ELSE evs

\* the region's duration multiplied by the rate instead of divided
OutputDurationTimesRate(duration, speed, pitch) ==
    RMul(Seconds(duration), RMul(Tenths(speed), Pow2Twelfths(pitch)))

\* the pitch left out of the rate
OutputDurationSpeedOnly(duration, speed, pitch) ==
    RDiv(Seconds(duration), Tenths(speed))

\* duration / effectiveRate, in seconds
OutputDuration(duration, speed, pitch) ==
    LET detuneFactor == Pow2Twelfths(pitch)
        effectiveRate == RMul(Tenths(speed), detuneFactor)
    IN  RDiv(Seconds(duration), effectiveRate)

\* a length rounded to the nearest whole number of samples
ContextLengthRounded(outputDuration, sampleRate) == RoundTimes(outputDuration, sampleRate)

\* the length argument of new OfflineAudioContext(channels, length, sampleRate):
\* a WebIDL unsigned long, so the product is truncated
ContextLength(outputDuration, sampleRate) == TruncTimes(outputDuration, sampleRate)

\* region (start, end) and the effect state as read by one call; buf is audioBuffer
ProcessAudioRegion(start, end, speed, pitch, volume, fadeInDuration, fadeOutDuration, buf) ==
    LET duration == end - start
    IN  IF duration <= 0 THEN NullResult
        ELSE
        LET outputDuration == OutputDuration(duration, speed, pitch)
            length == ContextLength(outputDuration, buf.sampleRate)
            fadeVolume == Tenths(volume)
            ev0 == InsertEvent(<<>>, SetValueEvent(RInt(0), RInt(0)))
            ev1 == ScheduleFadeIn(ev0, fadeVolume, fadeInDuration, outputDuration)
            ev2 == ScheduleFadeOut(ev1, fadeVolume, fadeOutDuration, outputDuration)
        IN  \* the constructor rejects a length of 0, source.start a negative offset
            IF length = 0 \/ start < 0 THEN ThrowResult
            ELSE [kind |-> "buffer",
                  numberOfChannels |-> buf.numberOfChannels,
                  sampleRate |-> buf.sampleRate,
                  length |-> length,
                  outputDuration |-> outputDuration,
                  playbackRate |-> Tenths(speed),
                  detune |-> pitch * 100,
                  offset |-> Seconds(start),
                  playDuration |-> Seconds(duration),
                  gain |-> ev2]

----------------------------------------------------------------------------
(* services/audioUtils.ts: the WAV encoder                                 *)
(*                                                                         *)
(* An AudioBuffer is [numberOfChannels, sampleRate, length, channels], the *)
(* channel data being sequences of rationals.  The bytes of the DataView   *)
(* are a sequence (offset o is element o + 1); a byte is a number 0..255   *)
(* or, in the Float32 format, [f32 |-> v, part |-> k]: byte k (0 = lowest) *)
(* of the little-endian IEEE encoding of the float v.                      *)

\* the bytes written by writeString: the char codes of the string
WriteString(view, offset, codes) ==
    [o \in 1..Len(view) |->
        IF o - 1 \in offset..(offset + Len(codes) - 1)
        THEN codes[o - offset] ELSE view[o]]

\* DataView.setUint32(offset, value, true): value modulo 2^32, lowest byte first
SetUint32(view, offset, value) ==
    [o \in 1..Len(view) |->
        CASE o - 1 = offset     -> value % 256
          [] o - 1 = offset + 1 -> (value \div 256) % 256
          [] o - 1 = offset + 2 -> (value \div 65536) % 256
          [] o - 1 = offset + 3 -> (value \div 16777216) % 256
          [] OTHER -> view[o]]

\* DataView.setUint16(offset, value, true): value modulo 2^16, lowest byte first
SetUint16(view, offset, value) ==
    [o \in 1..Len(view) |->
        CASE o - 1 = offset     -> (value % 65536) % 256
          [] o - 1 = offset + 1 -> (value % 65536) \div 256
          [] OTHER -> view[o]]

\* the two bytes DataView.setInt16(offset, value, true) stores: the number is
\* truncated to an integer and taken modulo 2^16
Int16Bytes(value) ==
    LET m == Trunc(value) % 65536
    IN  <<m % 256, m \div 256>>

\* Math.max(-1, Math.min(1, x))
Clamp(x) == RMax(RInt(-1), RMin(RInt(1), x))

\* the scaling without the clamp to [-1, 1]
ScaleSampleUnclamped(x) ==
    IF RLt(x, RInt(0)) THEN RMul(x, RInt(32768)) ELSE RMul(x, RInt(32767))

\* the scaling with one factor, 0x7FFF, on both sides of zero
ScaleSampleSymmetric(x) == RMul(Clamp(x), RInt(32767))

\* the number floatTo16BitPCM hands to setInt16 for one sample
ScaleSample(x) ==
    LET c == Clamp(x)
    IN  IF RLt(c, RInt(0)) THEN RMul(c, RInt(32768)) ELSE RMul(c, RInt(32767))

\* floatTo16BitPCM: the bytes stored from the offset on, two per sample
FloatTo16BitPCM(input) ==
    [k \in 1..(2 * Len(input)) |->
        Int16Bytes(ScaleSample(input[((k - 1) \div 2) + 1]))[((k - 1) % 2) + 1]]

\* writeFloat32: the bytes stored from the offset on, four per sample
WriteFloat32(input) ==
    [k \in 1..(4 * Len(input)) |->
        [f32 |-> input[((k - 1) \div 4) + 1], part |-> (k - 1) % 4]]

\* the while loop of interleave; result is the Float32Array being filled
RECURSIVE InterleaveLoop(_, _, _, _, _)
InterleaveLoop(inputL, inputR, index, inputIndex, result) ==
    IF index < Len(result)
    THEN InterleaveLoop(inputL, inputR, index + 2, inputIndex + 1,
             [result EXCEPT ![index + 1] = inputL[inputIndex + 1],
                            ![index + 2] = inputR[inputIndex + 1]])
    ELSE result

\* the two channels one after the other instead of frame by frame
InterleavePlanar(inputL, inputR) == inputL \o inputR

Interleave(inputL, inputR) ==
    LET length == Len(inputL) + Len(inputR)
    IN  InterleaveLoop(inputL, inputR, 0, 0, [i \in 1..length |-> RInt(0)])

\* the header writes of encodeWAV, in order, on the first 44 bytes of the view
WriteHeader(riffSize, fmtSize, format, numChannels, sampleRate, byteRate, blockAlign, bitDepth, dataSize) ==
    LET h0  == [o \in 1..44 |-> 0]
        h1  == WriteString(h0, 0, <<82, 73, 70, 70>>)          \* 'RIFF'
        h2  == SetUint32(h1, 4, riffSize)
        h3  == WriteString(h2, 8, <<87, 65, 86, 69>>)          \* 'WAVE'
        h4  == WriteString(h3, 12, <<102, 109, 116, 32>>)      \* 'fmt '
        h5  == SetUint32(h4, 16, fmtSize)
        h6  == SetUint16(h5, 20, format)
        h7  == SetUint16(h6, 22, numChannels)
        h8  == SetUint32(h7, 24, sampleRate)
        h9  == SetUint32(h8, 28, byteRate)
        h10 == SetUint16(h9, 32, blockAlign)
        h11 == SetUint16(h10, 34, bitDepth)
        h12 == WriteString(h11, 36, <<100, 97, 116, 97>>)      \* 'data'
    IN  SetUint32(h12, 40, dataSize)

\* a header whose byte rate leaves out the channel count
WavHeaderMonoByteRate(numSamples, format, sampleRate, numChannels, bitDepth) ==
    LET bytesPerSample == bitDepth \div 8
        blockAlign == numChannels * bytesPerSample
    IN  WriteHeader(36 + numSamples * bytesPerSample, 16, format, numChannels,
                    sampleRate, sampleRate * bytesPerSample, blockAlign, bitDepth,
                    numSamples * bytesPerSample)

\* the 44 header bytes encodeWAV writes for samples.length = numSamples
WavHeader(numSamples, format, sampleRate, numChannels, bitDepth) ==
    LET bytesPerSample == bitDepth \div 8
        blockAlign == numChannels * bytesPerSample
    IN  WriteHeader(36 + numSamples * bytesPerSample, 16, format, numChannels,
                    sampleRate, sampleRate * blockAlign, blockAlign, bitDepth,
                    numSamples * bytesPerSample)

\* new Blob([view], { type: 'audio/wav' })
WavBlobType == "audio/wav"

\* new Blob(mp3Data, { type: 'audio/mp3' })
Mp3BlobType == "audio/mp3"

\* encodeWAV: the header, then the samples from offset 44 on
EncodeWAV(samples, format, sampleRate, numChannels, bitDepth) ==
    [type |-> WavBlobType,
     bytes |-> WavHeader(Len(samples), format, sampleRate, numChannels, bitDepth)
               \o (IF format = 1 THEN FloatTo16BitPCM(samples)
                   ELSE WriteFloat32(samples))]

\* the Float32Array audioBufferToWav passes on to encodeWAV
SerializedSamples(buffer) ==
    IF buffer.numberOfChannels = 2
    THEN Interleave(buffer.channels[1], buffer.channels[2])
    ELSE buffer.channels[1]

AudioBufferToWav(buffer, float32) ==
    LET format == IF float32 THEN 3 ELSE 1
        bitDepth == IF format = 3 THEN 32 ELSE 16
    IN  EncodeWAV(SerializedSamples(buffer), format, buffer.sampleRate,
                  buffer.numberOfChannels, bitDepth)

----------------------------------------------------------------------------
(* services/audioUtils.ts: the MP3 adapter                                 *)
(*                                                                         *)
(* window.lamejs is outside the repository.  What its encoder returns is   *)
(* kept as a token naming the call that produced it; whether a returned    *)
(* array is empty is the library's choice and an input of the model.       *)

\* the store into an Int16Array element: truncated toward zero, modulo 2^16,
\* read back as a signed number
ToInt16(value) ==
    LET m == Trunc(value) % 65536
    IN  IF m >= 32768 THEN m - 65536 ELSE m

\* the conversion with the factor 32768 of the WAV path on both sides of zero
Mp3ScaleSampleWavFactor(x) == RMul(Clamp(x), RInt(32768))

\* Math.max(-1, Math.min(1, x)) * 32767.5
Mp3ScaleSample(x) == RMul(Clamp(x), Rat(65535, 2))

\* the for loop filling sampleLeft / sampleRight
ConvertChannel(data) == [i \in 1..Len(data) |-> ToInt16(Mp3ScaleSample(data[i]))]

\* mp3encoder.encodeBuffer(...): the frames returned, or an empty array
EncodeBuffer(args, empty) == [from |-> "encodeBuffer", input |-> args, empty |-> empty]

\* mp3encoder.flush(): the last frames, or an empty array
Flush(empty) == [from |-> "flush", input |-> <<>>, empty |-> empty]

\* if (block.length > 0) mp3Data.push(block)
PushBlock(mp3Data, block) == IF block.empty THEN mp3Data ELSE Append(mp3Data, block)

\* an adapter that pushes the flush block before the encoded frames
AudioBufferToMp3FlushFirst(buffer, lame, encodedEmpty, flushEmpty) ==
    IF ~lame THEN [kind |-> "throw", converted |-> 0, calls |-> <<>>]
    ELSE
    LET sampleLeft == ConvertChannel(buffer.channels[1])
        args == IF buffer.numberOfChannels = 2
                THEN <<sampleLeft, ConvertChannel(buffer.channels[2])>>
                ELSE <<sampleLeft>>
        sampleBlock == EncodeBuffer(args, encodedEmpty)
        endBlock == Flush(flushEmpty)
    IN  [kind |-> "blob",
         type |-> Mp3BlobType,
         encoder |-> [channels |-> buffer.numberOfChannels,
                      sampleRate |-> buffer.sampleRate, kbps |-> 192],
         converted |-> Len(args) * buffer.length,
         calls |-> <<[op |-> "encodeBuffer", args |-> args], [op |-> "flush", args |-> <<>>]>>,
         parts |-> PushBlock(PushBlock(<<>>, endBlock), sampleBlock)]

\* audioBufferToMp3: the encoder made, the calls on it in order and the parts
\* of the blob returned, or the throw when window.lamejs is missing
AudioBufferToMp3(buffer, lame, encodedEmpty, flushEmpty) ==
    IF ~lame THEN [kind |-> "throw", converted |-> 0, calls |-> <<>>]
    ELSE
    LET sampleLeft == ConvertChannel(buffer.channels[1])
        args == IF buffer.numberOfChannels = 2
                THEN <<sampleLeft, ConvertChannel(buffer.channels[2])>>
                ELSE <<sampleLeft>>
        sampleBlock == EncodeBuffer(args, encodedEmpty)
        endBlock == Flush(flushEmpty)
    IN  [kind |-> "blob",
         type |-> Mp3BlobType,
         encoder |-> [channels |-> buffer.numberOfChannels,
                      sampleRate |-> buffer.sampleRate, kbps |-> 192],
         converted |-> Len(args) * buffer.length,
         calls |-> <<[op |-> "encodeBuffer", args |-> args], [op |-> "flush", args |-> <<>>]>>,
         parts |-> PushBlock(PushBlock(<<>>, sampleBlock), endBlock)]

----------------------------------------------------------------------------
(* What the three functions write.  getChannelData hands out the buffer's  *)
(* own Float32Array, not a copy, so a store into it changes the buffer.    *)

\* array[index] = value; an array is named <<name, number>>
Store(array, index, value) == [array |-> array, index |-> index, value |-> value]

\* buffer.getChannelData(c - 1)
ChannelData(c) == <<"channelData", c>>

\* the arrays that are the buffer's own
InputArrays(buffer) == {ChannelData(c) : c \in 1..buffer.numberOfChannels}

\* the buffer as a set of stores leaves it
AfterStores(buffer, stores) ==
    LET own == {s \in stores : s.array[1] = "channelData"}
    IN  IF own = {} THEN buffer
        ELSE [buffer EXCEPT !.channels =
                [c \in DOMAIN @ |->
                   [i \in DOMAIN @[c] |->
                      IF \E s \in own : s.array = ChannelData(c) /\ s.index = i
                      THEN (CHOOSE s \in own :
                               s.array = ChannelData(c) /\ s.index = i).value
                      ELSE @[c][i]]]]

\* the array audioBufferToWav hands to encodeWAV as samples: the new
\* Float32Array of interleave, or channel 0 itself
SamplesArray(buffer) ==
    IF buffer.numberOfChannels = 2 THEN <<"result", 0>> ELSE ChannelData(1)

\* interleave: result[index++] = inputL[inputIndex]; result[index++] = inputR[inputIndex]
InterleaveStores(inputL, inputR) ==
    LET result == Interleave(inputL, inputR)
    IN  {Store(<<"result", 0>>, i - 1, result[i]) : i \in 1..Len(result)}

\* a floatTo16BitPCM that clamps input[i] in place before it scales it
WavStoresClampInPlace(buffer, float32) ==
    LET samples == SerializedSamples(buffer)
    IN  (IF buffer.numberOfChannels = 2
         THEN InterleaveStores(buffer.channels[1], buffer.channels[2])
         ELSE {})
        \cup (IF float32 THEN {}
              ELSE {Store(SamplesArray(buffer), i - 1, Clamp(samples[i])) :
                       i \in 1..Len(samples)})

\* the stores of audioBufferToWav(buffer, {float32}) into Float32Arrays: those
\* of interleave; encodeWAV, floatTo16BitPCM and writeFloat32 only read their
\* input and write through the DataView on the new ArrayBuffer
WavStores(buffer, float32) ==
    IF buffer.numberOfChannels = 2
    THEN InterleaveStores(buffer.channels[1], buffer.channels[2])
    ELSE {}

\* new Blob([view], ...): the blob is made of the DataView's bytes
WavBlobParts == {<<"view", 0>>}

\* the stores of audioBufferToMp3(buffer): sampleLeft[i] = ..., sampleRight[i] = ...
Mp3Stores(buffer, lame) ==
    IF ~lame THEN {}
    ELSE LET sampleLeft == ConvertChannel(buffer.channels[1])
         IN  {Store(<<"sampleLeft", 0>>, i - 1, sampleLeft[i]) : i \in 1..Len(sampleLeft)}
             \cup (IF buffer.numberOfChannels = 2
                   THEN LET sampleRight == ConvertChannel(buffer.channels[2])
                        IN  {Store(<<"sampleRight", 0>>, i - 1, sampleRight[i]) :
                                i \in 1..Len(sampleRight)}
                   ELSE {})

\* new Blob(mp3Data, ...): the blob is made of the arrays the encoder returned
Mp3BlobParts == {<<"mp3Data", 0>>}

\* processAudioRegion stores into no array: the source buffer is handed to
\* source.buffer and read by the offline render
RenderStores == {}

\* offlineCtx.startRendering() resolves with a buffer the context made
RenderedArrays == {<<"renderedBuffer", 0>>}

----------------------------------------------------------------------------
(* components/WaveformEditor.tsx: the editor                               *)

\* the number of inputs followed: clicks, pointer moves, setting changes and
\* animation frames
MaxInputs == 2

\* the first selection covers at most 30 s
InitialSpan == 600

\* the smallest span a handle drag leaves: 0.1 s
MinSpan == 2

\* ws.getDuration(): the length of the decoded source, in twentieths of a second
SourceDuration(buf) == (buf.length * 20) \div buf.sampleRate

DefaultEffects ==
    [speed |-> 10, pitch |-> 0, volume |-> 10, fadeInDuration |-> 10,
     fadeOutDuration |-> 10]

NoDrag == [target |-> "null", startTimeState |-> [start |-> 0, end |-> 0]]

\* the component after its first render and effects, the waveform still loading
Mounted(buf, lame) ==
    /\ audioBuffer = buf
    /\ lamejs = lame
    /\ isReady = FALSE
    /\ regionRef = [start |-> 0, end |-> 0]
    /\ dragRef = NoDrag
    /\ fx = DefaultEffects
    /\ exportFormat = "wav"
    /\ isPlaying = FALSE
    /\ isPreviewing = FALSE
    /\ wsPlaying = FALSE
    /\ wsEvents = <<>>
    /\ previewSourceRef = 0
    /\ previewContextRef = 0
    /\ animationFrameRef = 0
    /\ currentTime = RInt(0)
    /\ wsTime = RInt(0)
    /\ previews = <<>>
    /\ pending = <<>>
    /\ runs = <<>>
    /\ budget = 0

\* ws.on('ready')
Ready ==
    /\ ~isReady
    /\ isReady' = TRUE
    /\ LET d == SourceDuration(audioBuffer)
           initEnd == IF d < InitialSpan THEN d ELSE InitialSpan
       IN  regionRef' = [start |-> 0, end |-> initEnd]
    /\ UNCHANGED <<audioBuffer, lamejs, dragRef, fx, exportFormat, isPlaying,
                   isPreviewing, wsPlaying, wsEvents, previewSourceRef,
                   previewContextRef, animationFrameRef, currentTime, wsTime, previews,
                   pending, runs, budget>>

\* the effect sliders, the reset button and the format selector
SetSpeed(v) ==
    /\ budget < MaxInputs
    /\ v # fx.speed
    /\ fx' = [fx EXCEPT !.speed = v]
    /\ budget' = budget + 1

SetPitch(v) ==
    /\ budget < MaxInputs
    /\ v # fx.pitch
    /\ fx' = [fx EXCEPT !.pitch = v]
    /\ budget' = budget + 1

SetVolume(v) ==
    /\ budget < MaxInputs
    /\ v # fx.volume
    /\ fx' = [fx EXCEPT !.volume = v]
    /\ budget' = budget + 1

SetFadeInDuration(v) ==
    /\ budget < MaxInputs
    /\ v # fx.fadeInDuration
    /\ fx' = [fx EXCEPT !.fadeInDuration = v]
    /\ budget' = budget + 1

SetFadeOutDuration(v) ==
    /\ budget < MaxInputs
    /\ v # fx.fadeOutDuration
    /\ fx' = [fx EXCEPT !.fadeOutDuration = v]
    /\ budget' = budget + 1

ResetEffects ==
    /\ budget < MaxInputs
    /\ fx' = DefaultEffects
    /\ budget' = budget + 1

EffectSpeeds == {MaxSpeed}
EffectPitches == {-MaxPitch}
EffectVolumes == {MaxVolume}
EffectFades == {0}

ChangeEffects ==
    /\ \/ \E v \in EffectSpeeds : SetSpeed(v)
       \/ \E v \in EffectPitches : SetPitch(v)
       \/ \E v \in EffectVolumes : SetVolume(v)
       \/ \E v \in EffectFades : SetFadeInDuration(v)
       \/ \E v \in EffectFades : SetFadeOutDuration(v)
       \/ ResetEffects
    /\ UNCHANGED <<audioBuffer, lamejs, isReady, regionRef, dragRef, exportFormat,
                   isPlaying, isPreviewing, wsPlaying, wsEvents, previewSourceRef,
                   previewContextRef, animationFrameRef, currentTime, wsTime, previews,
                   pending, runs>>

SetExportFormat(f) ==
    /\ budget < MaxInputs
    /\ f # exportFormat
    /\ exportFormat' = f
    /\ budget' = budget + 1
    /\ UNCHANGED <<audioBuffer, lamejs, isReady, regionRef, dragRef, fx, isPlaying,
                   isPreviewing, wsPlaying, wsEvents, previewSourceRef,
                   previewContextRef, animationFrameRef, currentTime, wsTime, previews,
                   pending, runs>>

\* stopPreview on the nodes: the source held is stopped, the context held is
\* closed, the frame held is cancelled; what the refs do not hold is left alone
StoppedPreviews(ps, source, context, frame) ==
    [i \in 1..Len(ps) |->
        [ps[i] EXCEPT
            !.source = IF i = source /\ @ = "playing" THEN "stopped" ELSE @,
            !.context = IF i = context THEN "closed" ELSE @,
            !.frame = IF i = frame THEN FALSE ELSE @]]

\* stopPreview
StopPreview ==
    /\ previews' = StoppedPreviews(previews, previewSourceRef, previewContextRef,
                                   animationFrameRef)
    /\ previewSourceRef' = 0
    /\ previewContextRef' = 0
    /\ animationFrameRef' = 0
    /\ isPreviewing' = FALSE

DragTargets == {"start", "end", "box"}

\* the time deltas of a pointer move, in twentieths of a second
DragDeltas == {-700, 1}

\* handleDown on a handle or on the box (they exist from the mount on)
HandleDown(target) ==
    /\ dragRef.target = "null"
    /\ budget < MaxInputs
    /\ dragRef' = [target |-> target, startTimeState |-> regionRef]
    /\ UNCHANGED <<audioBuffer, lamejs, isReady, regionRef, fx, exportFormat,
                   isPlaying, isPreviewing, wsPlaying, wsEvents, previewSourceRef,
                   previewContextRef, animationFrameRef, currentTime, wsTime,
                   previews, pending, runs, budget>>

\* ws.getDuration(): 0 until the waveform has loaded
WsDuration == IF isReady THEN SourceDuration(audioBuffer) ELSE 0

Min(a, b) == IF a < b THEN a ELSE b

Max(a, b) == IF a > b THEN a ELSE b

\* the region a move leaves; timeDelta = totalPxDelta / (scrollWidth / duration),
\* which is 0 while the duration is 0
MovedRegion(region, drag, duration, delta) ==
    LET timeDelta == IF duration = 0 THEN 0 ELSE delta
        s0 == drag.startTimeState.start
        e0 == drag.startTimeState.end
        span == e0 - s0
        boxStart == Max(0, Min(duration - span, s0 + timeDelta))
    IN  CASE drag.target = "start" ->
                [start |-> Min(Max(0, s0 + timeDelta), e0 - MinSpan),
                 end |-> region.end]
          [] drag.target = "end" ->
                [start |-> region.start,
                 end |-> Max(Min(duration, e0 + timeDelta), s0 + MinSpan)]
          [] drag.target = "box" ->
                [start |-> boxStart, end |-> boxStart + span]

\* handleMove
HandleMove(delta) ==
    /\ dragRef.target # "null"
    /\ budget < MaxInputs
    /\ regionRef' = MovedRegion(regionRef, dragRef, WsDuration, delta)
    /\ budget' = budget + 1
    /\ UNCHANGED <<audioBuffer, lamejs, isReady, dragRef, fx, exportFormat,
                   isPlaying, isPreviewing, wsPlaying, wsEvents, previewSourceRef,
                   previewContextRef, animationFrameRef, currentTime, wsTime,
                   pending, runs, previews>>

\* handleUp
HandleUp ==
    /\ dragRef.target # "null"
    /\ dragRef' = [dragRef EXCEPT !.target = "null"]
    /\ StopPreview
    /\ UNCHANGED <<audioBuffer, lamejs, isReady, regionRef, fx, exportFormat,
                   isPlaying, wsPlaying, wsEvents, currentTime, wsTime, pending,
                   runs, budget>>

\* ws.pause(): the media stops and a 'pause' event is emitted, if it was playing
WsPaused(events, playing) == IF playing THEN Append(events, "pause") ELSE events

\* ws.play(): the media starts and a 'play' event is emitted, if it was paused
WsPlayed(events, playing) == IF playing THEN events ELSE Append(events, "play")

\* toggleRawPlay
ToggleRawPlay ==
    /\ isReady
    /\ budget < MaxInputs
    /\ budget' = budget + 1
    /\ IF isPlaying
       THEN /\ wsEvents' = WsPaused(wsEvents, wsPlaying)
            /\ wsPlaying' = FALSE
            /\ UNCHANGED wsTime
       ELSE /\ wsTime' = Seconds(regionRef.start)
            /\ wsEvents' = WsPlayed(wsEvents, wsPlaying)
            /\ wsPlaying' = TRUE
    /\ UNCHANGED <<audioBuffer, lamejs, isReady, regionRef, dragRef, fx,
                   exportFormat, isPlaying, isPreviewing, previewSourceRef,
                   previewContextRef, animationFrameRef, currentTime, previews,
                   pending, runs>>

\* ws.on('play')
OnPlay ==
    /\ wsEvents # <<>>
    /\ Head(wsEvents) = "play"
    /\ wsEvents' = Tail(wsEvents)
    /\ isPlaying' = TRUE
    /\ StopPreview
    /\ UNCHANGED <<audioBuffer, lamejs, isReady, regionRef, dragRef, fx,
                   exportFormat, wsPlaying, currentTime, wsTime, pending, runs,
                   budget>>

\* ws.on('pause')
OnPause ==
    /\ wsEvents # <<>>
    /\ Head(wsEvents) = "pause"
    /\ wsEvents' = Tail(wsEvents)
    /\ isPlaying' = FALSE
    /\ UNCHANGED <<audioBuffer, lamejs, isReady, regionRef, dragRef, fx,
                   exportFormat, isPreviewing, wsPlaying, previewSourceRef,
                   previewContextRef, animationFrameRef, currentTime, wsTime,
                   previews, pending, runs, budget>>

\* the isPlaying that the handlers registered in useEffect([audioBuffer]) read:
\* the effect runs after the first render and not again while the audioBuffer
\* prop stays the same, so they keep the state of that render, useState(false)
MountedIsPlaying == FALSE

\* the times the media reports while it runs: half way through the region and
\* at its end
TimeUpdateTimes ==
    {Seconds((regionRef.start + regionRef.end) \div 2), Seconds(regionRef.end)}

\* ws.on('timeupdate') with the media running at the time reported
OnTimeUpdate(time) ==
    /\ wsPlaying
    /\ budget < MaxInputs
    /\ budget' = budget + 1
    /\ currentTime' = time
    /\ wsTime' = IF /\ MountedIsPlaying
                    /\ \/ RLe(Seconds(regionRef.end), time)
                       \/ RLt(time, Seconds(regionRef.start))
                 THEN Seconds(regionRef.start)
                 ELSE time
    /\ UNCHANGED <<audioBuffer, lamejs, isReady, regionRef, dragRef, fx,
                   exportFormat, isPlaying, isPreviewing, wsPlaying, wsEvents,
                   previewSourceRef, previewContextRef, animationFrameRef,
                   previews, pending, runs>>

\* ws.on('finish'): the media has run to the end of the file and stopped
OnFinish ==
    /\ wsPlaying
    /\ budget < MaxInputs
    /\ budget' = budget + 1
    /\ wsTime' = Seconds(WsDuration)
    /\ IF MountedIsPlaying
       THEN /\ wsPlaying' = TRUE
            /\ wsEvents' = Append(wsEvents, "play")
            /\ UNCHANGED isPlaying
       ELSE /\ wsPlaying' = FALSE
            /\ isPlaying' = FALSE
            /\ UNCHANGED wsEvents
    /\ UNCHANGED <<audioBuffer, lamejs, isReady, regionRef, dragRef, fx,
                   exportFormat, isPreviewing, previewSourceRef,
                   previewContextRef, animationFrameRef, currentTime, previews,
                   pending, runs>>

\* processAudioRegion as the component calls it: on regionRef.current, the
\* effect settings of the render the handler closed over, and the audioBuffer prop
RenderRegion ==
    ProcessAudioRegion(regionRef.start, regionRef.end, fx.speed, fx.pitch, fx.volume,
                       fx.fadeInDuration, fx.fadeOutDuration, audioBuffer)

\* what a handler run has done: the region and format it ran on, what
\* processAudioRegion gave it, the encoder it called, the blob it got, the
\* extension of the file it downloaded, whether it called onDownloadSuccess,
\* raised the alert or started a preview source
NewRun(handler, format, kind) ==
    [handler |-> handler, start |-> regionRef.start, end |-> regionRef.end,
     format |-> format, result |-> kind, encoder |-> "none", blob |-> "none",
     download |-> "none", success |-> FALSE, alert |-> FALSE, played |-> FALSE]

\* a handler that exports WAV in place of MP3 when window.lamejs is missing
ExportOutcomeWavFallback(kind, format, lame) ==
    CASE kind = "null" ->
            [encoder |-> "none", blob |-> "none", download |-> "none",
             success |-> FALSE, alert |-> FALSE]
      [] kind = "throw" ->
            [encoder |-> "none", blob |-> "none", download |-> "none",
             success |-> FALSE, alert |-> TRUE]
      [] kind = "buffer" /\ (format = "wav" \/ ~lame) ->
            [encoder |-> "wav", blob |-> WavBlobType, download |-> "wav",
             success |-> TRUE, alert |-> FALSE]
      [] kind = "buffer" /\ format = "mp3" /\ lame ->
            [encoder |-> "mp3", blob |-> Mp3BlobType, download |-> "mp3",
             success |-> TRUE, alert |-> FALSE]

\* a handler that names every download .wav
ExportOutcomeWavExtension(kind, format, lame) ==
    CASE kind = "null" ->
            [encoder |-> "none", blob |-> "none", download |-> "none",
             success |-> FALSE, alert |-> FALSE]
      [] kind = "throw" ->
            [encoder |-> "none", blob |-> "none", download |-> "none",
             success |-> FALSE, alert |-> TRUE]
      [] kind = "buffer" /\ format = "wav" ->
            [encoder |-> "wav", blob |-> WavBlobType, download |-> "wav",
             success |-> TRUE, alert |-> FALSE]
      [] kind = "buffer" /\ format = "mp3" /\ ~lame ->
            [encoder |-> "mp3", blob |-> "none", download |-> "none",
             success |-> FALSE, alert |-> TRUE]
      [] kind = "buffer" /\ format = "mp3" /\ lame ->
            [encoder |-> "mp3", blob |-> Mp3BlobType, download |-> "wav",
             success |-> TRUE, alert |-> FALSE]

\* a handler that treats the null of an empty region as a buffer
ExportOutcomeNoNullCheck(kind, format, lame) ==
    CASE kind = "throw" ->
            [encoder |-> "none", blob |-> "none", download |-> "none",
             success |-> FALSE, alert |-> TRUE]
      [] kind # "throw" /\ format = "wav" ->
            [encoder |-> "wav", blob |-> WavBlobType, download |-> "wav",
             success |-> TRUE, alert |-> FALSE]
      [] kind # "throw" /\ format = "mp3" /\ ~lame ->
            [encoder |-> "mp3", blob |-> "none", download |-> "none",
             success |-> FALSE, alert |-> TRUE]
      [] kind # "throw" /\ format = "mp3" /\ lame ->
            [encoder |-> "mp3", blob |-> Mp3BlobType, download |-> "mp3",
             success |-> TRUE, alert |-> FALSE]

\* handleDownload from the result of processAudioRegion on: null returns at
\* once; a rejected render goes to the catch; audioBufferToMp3 throws without
\* window.lamejs
ExportOutcome(kind, format, lame) ==
    CASE kind = "null" ->
            [encoder |-> "none", blob |-> "none", download |-> "none",
             success |-> FALSE, alert |-> FALSE]
      [] kind = "throw" ->
            [encoder |-> "none", blob |-> "none", download |-> "none",
             success |-> FALSE, alert |-> TRUE]
      [] kind = "buffer" /\ format = "wav" ->
            [encoder |-> "wav", blob |-> WavBlobType, download |-> "wav",
             success |-> TRUE, alert |-> FALSE]
      [] kind = "buffer" /\ format = "mp3" /\ ~lame ->
            [encoder |-> "mp3", blob |-> "none", download |-> "none",
             success |-> FALSE, alert |-> TRUE]
      [] kind = "buffer" /\ format = "mp3" /\ lame ->
            [encoder |-> "mp3", blob |-> Mp3BlobType, download |-> "mp3",
             success |-> TRUE, alert |-> FALSE]

Exported(run, kind, lame) ==
    LET o == ExportOutcome(kind, run.format, lame)
    IN  [run EXCEPT !.result = kind, !.encoder = o.encoder, !.blob = o.blob,
                    !.download = o.download, !.success = o.success,
                    !.alert = o.alert]

RemoveAt(s, i) == SubSeq(s, 1, i - 1) \o SubSeq(s, i + 1, Len(s))

\* handleDownload up to the await: an empty region or a rejected render ends the
\* run in the same task, a render that starts is left in flight
HandleDownload ==
    /\ budget < MaxInputs
    /\ budget' = budget + 1
    /\ \E r \in {RenderRegion} :
          LET run == NewRun("download", exportFormat, "pending")
          IN  IF r.kind = "buffer"
              THEN /\ runs' = Append(runs, run)
                   /\ pending' = Append(pending, [run |-> Len(runs) + 1, buffer |-> r])
              ELSE /\ runs' = Append(runs, Exported(run, r.kind, lamejs))
                   /\ UNCHANGED pending
    /\ UNCHANGED <<audioBuffer, lamejs, isReady, regionRef, dragRef, fx,
                   exportFormat, isPlaying, isPreviewing, wsPlaying, wsEvents,
                   previewSourceRef, previewContextRef, animationFrameRef,
                   currentTime, wsTime, previews>>

\* handleDownload after the await: encode, download, onDownloadSuccess
DownloadRendered(i) ==
    /\ runs[pending[i].run].handler = "download"
    /\ runs' = [runs EXCEPT ![pending[i].run] = Exported(@, "buffer", lamejs)]
    /\ pending' = RemoveAt(pending, i)
    /\ UNCHANGED <<audioBuffer, lamejs, isReady, regionRef, dragRef, fx,
                   exportFormat, isPlaying, isPreviewing, wsPlaying, wsEvents,
                   previewSourceRef, previewContextRef, animationFrameRef,
                   currentTime, wsTime, previews, budget>>

\* handlePreviewEffect up to the await
HandlePreviewEffect ==
    /\ budget < MaxInputs
    /\ budget' = budget + 1
    /\ IF isPreviewing
       THEN /\ StopPreview
            /\ UNCHANGED <<wsPlaying, wsEvents, runs, pending>>
       ELSE /\ wsEvents' = IF isPlaying THEN WsPaused(wsEvents, wsPlaying) ELSE wsEvents
            /\ wsPlaying' = IF isPlaying THEN FALSE ELSE wsPlaying
            /\ \E r \in {RenderRegion} :
                  /\ runs' = Append(runs, NewRun("preview", "none",
                               IF r.kind = "buffer" THEN "pending" ELSE r.kind))
                  /\ pending' = IF r.kind = "buffer"
                                THEN Append(pending, [run |-> Len(runs) + 1, buffer |-> r])
                                ELSE pending
            /\ UNCHANGED <<previews, previewSourceRef, previewContextRef,
                           animationFrameRef, isPreviewing>>
    /\ UNCHANGED <<audioBuffer, lamejs, isReady, regionRef, dragRef, fx,
                   exportFormat, isPlaying, currentTime, wsTime>>

\* processedBuffer.duration
BufferDuration(buffer) == Rat(buffer.length, buffer.sampleRate)

\* start + progress * regionDuration, with progress = elapsed / duration
ProjectedTime(start, regionDuration, elapsed, duration) ==
    RAdd(Seconds(start), RMul(RDiv(elapsed, duration), Seconds(regionDuration)))

\* handlePreviewEffect after the await: a new context and source, started, and
\* the first tick() (elapsed = 0), which moves the playhead to the region start
\* and requests the next frame
PreviewRendered(i) ==
    /\ runs[pending[i].run].handler = "preview"
    /\ LET n == Len(previews) + 1
       IN  /\ previews' = Append(previews,
                  [source |-> "playing", context |-> "open", frame |-> TRUE,
                   start |-> regionRef.start,
                   regionDuration |-> regionRef.end - regionRef.start,
                   duration |-> BufferDuration(pending[i].buffer),
                   clock |-> RInt(0),
                   seen |-> RInt(0),
                   elapsed |-> RInt(0),
                   position |-> ProjectedTime(regionRef.start,
                                    regionRef.end - regionRef.start, RInt(0),
                                    BufferDuration(pending[i].buffer)),
                   rendered |-> [offset |-> pending[i].buffer.offset,
                                 playDuration |-> pending[i].buffer.playDuration,
                                 outputDuration |-> pending[i].buffer.outputDuration],
                   run |-> pending[i].run])
           /\ previewContextRef' = n
           /\ previewSourceRef' = n
           /\ animationFrameRef' = n
    /\ isPreviewing' = TRUE
    /\ wsTime' = ProjectedTime(regionRef.start, regionRef.end - regionRef.start,
                                RInt(0), BufferDuration(pending[i].buffer))
    /\ currentTime' = wsTime'
    /\ runs' = [runs EXCEPT ![pending[i].run] = [@ EXCEPT !.result = "buffer", !.played = TRUE]]
    /\ pending' = RemoveAt(pending, i)
    /\ UNCHANGED <<audioBuffer, lamejs, isReady, regionRef, dragRef, fx,
                   exportFormat, isPlaying, wsPlaying, wsEvents, budget>>

\* the times at which a frame of preview i may find the clock of context j:
\* where it was last seen, half way through the buffer of preview i, at its
\* end, and at twice its length
FrameTimes(i, j) ==
    {t \in {previews[j].clock,
            RDiv(previews[i].duration, RInt(2)),
            previews[i].duration,
            RMul(previews[i].duration, RInt(2))} : RLe(previews[j].clock, t)}

\* every time a frame of preview i may fire at
TickTimes(i) ==
    {RInt(0)} \cup UNION {FrameTimes(i, j) : j \in 1..Len(previews)}

\* a tick that stops only after twice the length of the buffer
TickUpdatesOverrun(i, elapsed) ==
    RLe(elapsed, RMul(previews[i].duration, RInt(2)))

\* tick(): if (elapsed > duration) return
TickUpdates(i, elapsed) == ~RLt(previews[i].duration, elapsed)

\* a frame of preview i fires and tick() runs, the clock of the context now
\* in previewContextRef (a context that is closed no longer advances) being t
Tick(i, t) ==
    /\ previews[i].frame
    /\ budget < MaxInputs
    /\ budget' = budget + 1
    /\ IF previewContextRef = 0
       THEN /\ t = RInt(0)
            /\ previews' = [previews EXCEPT ![i].frame = FALSE]
            /\ UNCHANGED <<wsTime, currentTime, animationFrameRef>>
       ELSE /\ t \in FrameTimes(i, previewContextRef)
            /\ previews[previewContextRef].context = "closed"
                  => t = previews[previewContextRef].clock
            /\ IF TickUpdates(i, t)
               THEN LET currentWaveformTime ==
                            ProjectedTime(previews[i].start, previews[i].regionDuration,
                                          t, previews[i].duration)
                    IN  /\ previews' = [previews EXCEPT
                                           ![previewContextRef].clock = t,
                                           ![i].seen = t,
                                           ![i].elapsed = t,
                                           ![i].position = currentWaveformTime]
                        /\ wsTime' = currentWaveformTime
                        /\ currentTime' = currentWaveformTime
                        /\ animationFrameRef' = i
               ELSE /\ previews' = [previews EXCEPT
                                       ![previewContextRef].clock = t,
                                       ![i].seen = t,
                                       ![i].frame = FALSE]
                    /\ UNCHANGED <<wsTime, currentTime, animationFrameRef>>
    /\ UNCHANGED <<audioBuffer, lamejs, isReady, regionRef, dragRef, fx,
                   exportFormat, isPlaying, isPreviewing, wsPlaying, wsEvents,
                   previewSourceRef, previewContextRef, pending, runs>>

\* the source of preview i has ended: it has played its buffer through
\* (started at time 0 of its context), or stop() has taken effect
SourceHasEnded(i) ==
    \/ previews[i].source = "playing" /\ previews[i].context = "open"
    \/ previews[i].source = "stopped"

\* an onended handler that cancels the frame and leaves isPreviewing as it is
SourceEndedKeepsPreviewing(i) ==
    /\ SourceHasEnded(i)
    /\ previews' = [k \in 1..Len(previews) |->
                      [previews[k] EXCEPT
                          !.source = IF k = i THEN "ended" ELSE @,
                          !.clock = IF k = i /\ previews[i].source = "playing"
                                    THEN RMax(@, previews[i].duration) ELSE @,
                          !.frame = IF k = animationFrameRef THEN FALSE ELSE @]]
    /\ UNCHANGED <<audioBuffer, lamejs, isReady, regionRef, dragRef, fx,
                   exportFormat, isPlaying, isPreviewing, wsPlaying, wsEvents,
                   previewSourceRef, previewContextRef, animationFrameRef,
                   currentTime, wsTime, pending, runs, budget>>

\* source.onended
SourceEnded(i) ==
    /\ SourceHasEnded(i)
    /\ isPreviewing' = FALSE
    /\ previews' = [k \in 1..Len(previews) |->
                      [previews[k] EXCEPT
                          !.source = IF k = i THEN "ended" ELSE @,
                          !.clock = IF k = i /\ previews[i].source = "playing"
                                    THEN RMax(@, previews[i].duration) ELSE @,
                          !.frame = IF k = animationFrameRef THEN FALSE ELSE @]]
    /\ UNCHANGED <<audioBuffer, lamejs, isReady, regionRef, dragRef, fx,
                   exportFormat, isPlaying, wsPlaying, wsEvents, previewSourceRef,
                   previewContextRef, animationFrameRef, currentTime, wsTime,
                   pending, runs, budget>>

\* the decoded source: 0.05 s mono, 31 s stereo
EditorBuffers ==
    {[numberOfChannels |-> 1, sampleRate |-> 8000, length |-> 400],
     [numberOfChannels |-> 2, sampleRate |-> 8000, length |-> 248000]}

\* the component with the waveform ready, the region dragged and the sliders
\* set, before any click on play, preview or download
Editing(buf, lame, region, effects) ==
    /\ audioBuffer = buf
    /\ lamejs = lame
    /\ isReady = TRUE
    /\ regionRef = region
    /\ dragRef = [target |-> "null", startTimeState |-> region]
    /\ fx = effects
    /\ exportFormat = "wav"
    /\ isPlaying = FALSE
    /\ isPreviewing = FALSE
    /\ wsPlaying = FALSE
    /\ wsEvents = <<>>
    /\ previewSourceRef = 0
    /\ previewContextRef = 0
    /\ animationFrameRef = 0
    /\ currentTime = RInt(0)
    /\ wsTime = RInt(0)
    /\ previews = <<>>
    /\ pending = <<>>
    /\ runs = <<>>
    /\ budget = 0

\* sessions already under way: 31 s of stereo with the region [0.15, 0.5] at
\* speed 1.3, and with the region [2.0, 5.0] at pitch +5
EditingSessions ==
    {[buffer |-> [numberOfChannels |-> 2, sampleRate |-> 8000, length |-> 248000],
      lame |-> TRUE,
      region |-> [start |-> 3, end |-> 10],
      effects |-> [DefaultEffects EXCEPT !.speed = 13]],
     [buffer |-> [numberOfChannels |-> 2, sampleRate |-> 8000, length |-> 248000],
      lame |-> TRUE,
      region |-> [start |-> 40, end |-> 100],
      effects |-> [DefaultEffects EXCEPT !.pitch = 5]]}

Init ==
    /\ \/ \E buf \in EditorBuffers, lame \in BOOLEAN : Mounted(buf, lame)
       \/ \E s \in EditingSessions : Editing(s.buffer, s.lame, s.region, s.effects)
    /\ rin = IdleResult
    /\ rout = IdleResult
    /\ win = IdleResult
    /\ wout = IdleResult
    /\ min = IdleResult
    /\ mout = IdleResult

Next ==
    \/ Ready /\ UNCHANGED <<renderVars, wavVars, mp3Vars>>
    \/ ChangeEffects /\ UNCHANGED <<renderVars, wavVars, mp3Vars>>
    \/ \E f \in {"wav", "mp3"} : SetExportFormat(f) /\ UNCHANGED <<renderVars, wavVars, mp3Vars>>
    \/ \E t \in DragTargets : HandleDown(t) /\ UNCHANGED <<renderVars, wavVars, mp3Vars>>
    \/ \E d \in DragDeltas : HandleMove(d) /\ UNCHANGED <<renderVars, wavVars, mp3Vars>>
    \/ HandleUp /\ UNCHANGED <<renderVars, wavVars, mp3Vars>>
    \/ ToggleRawPlay /\ UNCHANGED <<renderVars, wavVars, mp3Vars>>
    \/ OnPlay /\ UNCHANGED <<renderVars, wavVars, mp3Vars>>
    \/ OnPause /\ UNCHANGED <<renderVars, wavVars, mp3Vars>>
    \/ \E t \in TimeUpdateTimes : OnTimeUpdate(t) /\ UNCHANGED <<renderVars, wavVars, mp3Vars>>
    \/ OnFinish /\ UNCHANGED <<renderVars, wavVars, mp3Vars>>
    \/ HandleDownload /\ UNCHANGED <<renderVars, wavVars, mp3Vars>>
    \/ \E i \in 1..Len(pending) : DownloadRendered(i) /\ UNCHANGED <<renderVars, wavVars, mp3Vars>>
    \/ HandlePreviewEffect /\ UNCHANGED <<renderVars, wavVars, mp3Vars>>
    \/ \E i \in 1..Len(pending) : PreviewRendered(i) /\ UNCHANGED <<renderVars, wavVars, mp3Vars>>
    \/ \E i \in 1..Len(previews) : \E t \in TickTimes(i) : Tick(i, t) /\ UNCHANGED <<renderVars, wavVars, mp3Vars>>
    \/ \E i \in 1..Len(previews) : SourceEnded(i) /\ UNCHANGED <<renderVars, wavVars, mp3Vars>>

Spec == Init /\ [][Next]_vars

----------------------------------------------------------------------------
(* Properties of the handlers (checked under Spec)                         *)

EmptyRegionRun(run) == run.end - run.start <= 0

\* C3: a handler run on a region with end - start <= 0 gets no buffer from
\* processAudioRegion (the result is null, never a render in flight or a
\* buffer), calls neither the WAV nor the MP3 encoder, starts no preview
\* source, triggers no download and does not call onDownloadSuccess
C3_EmptyRegionNoOutput ==
    \A k \in 1..Len(runs) :
        EmptyRegionRun(runs[k]) =>
            /\ runs[k].result = "null"
            /\ runs[k].encoder = "none"
            /\ runs[k].blob = "none"
            /\ ~runs[k].played
            /\ runs[k].download = "none"
            /\ ~runs[k].success
            /\ \A i \in 1..Len(pending) : pending[i].run # k
            /\ \A i \in 1..Len(previews) : previews[i].run # k

\* an MP3 download has run on an empty region
C3_Witness ==
    \E k \in 1..Len(runs) :
        /\ EmptyRegionRun(runs[k])
        /\ runs[k].handler = "download"
        /\ runs[k].format = "mp3"

\* an export that has got its rendered buffer
ExportRan(run) == run.handler = "download" /\ run.result = "buffer"

\* the step makes run k an export that failed (the catch block ran)
FailsNow(k) ==
    /\ k \in 1..Len(runs')
    /\ runs'[k].alert
    /\ k > Len(runs) \/ ~runs[k].alert

\* C11: without window.lamejs an MP3 export that reaches the encoder fails: no
\* blob, no download, no onDownloadSuccess, the failure reported; a WAV export
\* without window.lamejs succeeds; the step in which an export fails leaves
\* the selected export format as it was
C11_Mp3UnavailableFails ==
    /\ [](\A k \in 1..Len(runs) :
            (ExportRan(runs[k]) /\ ~lamejs) =>
                /\ runs[k].format = "mp3" =>
                      /\ runs[k].blob = "none"
                      /\ runs[k].download = "none"
                      /\ ~runs[k].success
                      /\ runs[k].alert
                /\ runs[k].format = "wav" =>
                      /\ runs[k].blob = WavBlobType
                      /\ runs[k].download = "wav"
                      /\ runs[k].success
                      /\ ~runs[k].alert)
    /\ [][(\E k \in 1..Len(runs') : FailsNow(k)) => exportFormat' = exportFormat]_vars

\* without window.lamejs an MP3 export has failed and the selection is still MP3
C11_Witness ==
    /\ ~lamejs
    /\ exportFormat = "mp3"
    /\ \E k \in 1..Len(runs) :
          ExportRan(runs[k]) /\ runs[k].format = "mp3" /\ runs[k].alert

\* the MIME type of the blob an export in the given format hands to the download
BlobTypeOf(format) == IF format = "wav" THEN WavBlobType ELSE Mp3BlobType

\* the step is a click on the export button: run k is new and is a download
ExportClicked(k) ==
    /\ k = Len(runs) + 1
    /\ Len(runs') = k
    /\ runs'[k].handler = "download"

\* C18: an export that downloads a file was run with the encoder of its
\* format, got a blob of that format's MIME type (audio/wav for WAV, audio/mp3
\* for MP3) and named the file with that format's extension (.wav, .mp3); an
\* export that called an encoder called the one of its format; and the format
\* of an export is the format selected when the export button was clicked
C18_FormatMatches ==
    /\ [](\A k \in 1..Len(runs) :
            /\ runs[k].download # "none" =>
                  /\ runs[k].handler = "download"
                  /\ runs[k].format \in {"wav", "mp3"}
                  /\ runs[k].encoder = runs[k].format
                  /\ runs[k].blob = BlobTypeOf(runs[k].format)
                  /\ runs[k].download = runs[k].format
                  /\ runs[k].format = "wav" => runs[k].blob = "audio/wav"
                  /\ runs[k].format = "mp3" => runs[k].blob = "audio/mp3"
            /\ runs[k].encoder # "none" => runs[k].encoder = runs[k].format)
    /\ [][\A k \in 1..Len(runs') :
              ExportClicked(k) => runs'[k].format = exportFormat]_vars

\* after MP3 was selected, an export has downloaded an audio/mp3 blob as .mp3
C18_Witness ==
    /\ exportFormat = "mp3"
    /\ \E k \in 1..Len(runs) :
          /\ runs[k].handler = "download"
          /\ runs[k].format = "mp3"
          /\ runs[k].blob = "audio/mp3"
          /\ runs[k].download = "mp3"

\* Web Audio: an AudioBufferSourceNode reads its buffer at
\* playbackRate * 2^(detune / 1200) seconds of content per second of output
ReadRate(r) == RMul(r.playbackRate, Pow2Twelfths(r.detune \div 100))

\* the source position the render r reads at output time t
SourcePositionAt(r, t) == RAdd(r.offset, RMul(ReadRate(r), t))

\* the render r of the region (start, end) reads at the rate its output was
\* sized with, from start on, and is at end at output time outputDuration
ReadsRegion(r, start, end) ==
    /\ RMul(r.outputDuration, ReadRate(r)) = r.playDuration
    /\ r.offset = Seconds(start)
    /\ RAdd(r.offset, r.playDuration) = Seconds(end)
    /\ SourcePositionAt(r, RInt(0)) = Seconds(start)
    /\ SourcePositionAt(r, r.outputDuration) = Seconds(end)

\* every frame of the output of r falls within the time the source plays, and
\* the source buffer buf has content for all of the range read
OutputFilled(r, buf) ==
    /\ RLe(BufferDuration(r), r.outputDuration)
    /\ RLe(RInt(0), r.offset)
    /\ RLe(RAdd(r.offset, r.playDuration), BufferDuration(buf))

\* C20: every render under way reads the source at playbackRate combined with
\* detune, which is the effectiveRate its output was sized with, over exactly
\* [region.start, region.end): the end of the region is reached at output time
\* outputDuration, nothing outside the region is read and no tail of the
\* output is left unfilled
C20_ReadCoversRegion ==
    \A i \in 1..Len(pending) :
        /\ ReadsRegion(pending[i].buffer, runs[pending[i].run].start,
                       runs[pending[i].run].end)
        /\ OutputFilled(pending[i].buffer, audioBuffer)

\* the playhead position preview i last set lies within the region its tick
\* projects onto
WithinProjectedRegion(i) ==
    /\ RLe(Seconds(previews[i].start), previews[i].position)
    /\ RLe(previews[i].position,
           Seconds(previews[i].start + previews[i].regionDuration))

\* as stated: the position a tick sets is start + (elapsed / outputDuration) *
\* regionDuration, outputDuration being duration / (speed * 2^(pitch/12))
C14_AsStated ==
    \A i \in 1..Len(previews) :
        /\ previews[i].position =
              ProjectedTime(previews[i].start, previews[i].regionDuration,
                            previews[i].elapsed, previews[i].rendered.outputDuration)
        /\ WithinProjectedRegion(i)

\* C14: the position a preview tick sets is start + (elapsed / d) *
\* regionDuration, d being the duration of the rendered buffer (its length over
\* its sample rate), start and regionDuration those of the region read when
\* the preview started; it lies within [start, start + regionDuration]
C14_ProjectedPlayhead ==
    \A i \in 1..Len(previews) :
        /\ previews[i].position =
              RAdd(Seconds(previews[i].start),
                   RMul(RDiv(previews[i].elapsed, previews[i].duration),
                        Seconds(previews[i].regionDuration)))
        /\ WithinProjectedRegion(i)
        /\ RLe(RInt(0), previews[i].elapsed)
        /\ RLe(previews[i].elapsed, previews[i].duration)

\* a tick has set the playhead half way through a buffer whose length was cut
\* to a whole number of samples
C14_Witness ==
    \E i \in 1..Len(previews) :
        /\ RLt(RInt(0), previews[i].elapsed)
        /\ RLt(previews[i].elapsed, previews[i].duration)
        /\ previews[i].duration # previews[i].rendered.outputDuration
        /\ currentTime = previews[i].position

\* the source of preview i ends in this step
EndsNow(i) == previews[i].source # "ended" /\ previews'[i].source = "ended"

\* as stated: a tick that finds elapsed >= outputDuration neither sets the
\* playhead nor requests another frame
C15_AsStated ==
    \A i \in 1..Len(previews) :
        RLe(previews[i].rendered.outputDuration, previews[i].seen) =>
            /\ previews[i].elapsed # previews[i].seen
            /\ ~previews[i].frame

\* C15: a tick that finds elapsed > d, the duration of the rendered buffer,
\* neither sets the playhead nor requests another frame, and none follows it;
\* when the source ends isPreviewing becomes false, and it becomes true again
\* only when a new preview is started
C15_PreviewFinishes ==
    /\ [](\A i \in 1..Len(previews) :
            /\ RLe(previews[i].elapsed, previews[i].duration)
            /\ RLt(previews[i].duration, previews[i].seen) =>
                  /\ ~previews[i].frame
                  /\ previews[i].elapsed # previews[i].seen)
    /\ [][/\ \A i \in 1..Len(previews) : EndsNow(i) => ~isPreviewing'
          /\ (~isPreviewing /\ isPreviewing') => Len(previews') = Len(previews) + 1]_vars

\* a tick found the buffer played through and stopped, the source has ended
\* and no preview is shown as running
C15_Witness ==
    \E i \in 1..Len(previews) :
        /\ RLt(previews[i].duration, previews[i].seen)
        /\ previews[i].source = "ended"
        /\ ~previews[i].frame
        /\ ~isPreviewing

\* C16: once the waveform is ready the selected region satisfies
\* 0 <= start < end <= source duration and end - start >= 0.1, whatever
\* handle or box moves were made and whatever the duration of the source
C16_RegionInvariant ==
    isReady =>
        /\ 0 <= regionRef.start
        /\ regionRef.start < regionRef.end
        /\ regionRef.end <= SourceDuration(audioBuffer)
        /\ regionRef.end - regionRef.start >= MinSpan

\* preview i is heard: its source has been started and has neither ended nor
\* been stopped, and its context is open
Playing(i) == previews[i].source = "playing" /\ previews[i].context = "open"

\* C22: at most one preview source is playing at any time, and every playing
\* preview source is the one held in previewSourceRef
C22_OnePreviewSource ==
    /\ Cardinality({i \in 1..Len(previews) : Playing(i)}) <= 1
    /\ \A i \in 1..Len(previews) : Playing(i) => previewSourceRef = i

\* the preview contexts that have been opened and not closed
OpenContexts == {i \in 1..Len(previews) : previews[i].context = "open"}

\* C23: whenever no preview source is playing, whether the last one was
\* stopped by stopPreview or reached its end, no preview context is open; and
\* at most one preview context is open at any time
C23_ContextsClosed ==
    /\ (\A i \in 1..Len(previews) : previews[i].source # "playing") => OpenContexts = {}
    /\ Cardinality(OpenContexts) <= 1

\* C24: the region start and the region duration the playhead projection of a
\* preview uses are those of the region that was rendered into the buffer it
\* plays, also when a drag has changed the region while the render was under way
C24_ProjectionUsesRenderedRegion ==
    \A i \in 1..Len(previews) :
        /\ Seconds(previews[i].start) = previews[i].rendered.offset
        /\ Seconds(previews[i].regionDuration) = previews[i].rendered.playDuration
        /\ previews[i].start = runs[previews[i].run].start
        /\ previews[i].start + previews[i].regionDuration = runs[previews[i].run].end

\* C25: raw playback and effect preview are mutually exclusive: in no state is
\* the original audio playing (isPlaying, the media running) while a preview
\* source is playing (isPreviewing, a source heard)
C25_PlaybackExcludesPreview ==
    /\ ~(isPlaying /\ isPreviewing)
    /\ ~(wsPlaying /\ \E i \in 1..Len(previews) : Playing(i))

\* the time reported lies outside the region: at or past its end, or before
\* its start
OutsideRegion(time) ==
    RLe(Seconds(regionRef.end), time) \/ RLt(time, Seconds(regionRef.start))

\* C26: while raw playback is active (isPlaying, the media running), a time
\* update that reports a position at or past region.end or before region.start
\* resets the playhead to region.start, and the end of the file restarts
\* playback
C26_RawPlaybackLoops ==
    [][(isPlaying /\ wsPlaying) =>
          /\ \A t \in TimeUpdateTimes :
                (OnTimeUpdate(t) /\ OutsideRegion(t)) => wsTime' = Seconds(regionRef.start)
          /\ OnFinish => (wsPlaying' /\ isPlaying')]_vars

----------------------------------------------------------------------------
(* The renderer on its own: every input of the bounded sets below          *)

\* <<start, end>> in twentieths of a second: empty regions, the 0.1 s minimum,
\* [2.0, 5.0], [0, 10], [0, 4] and [0.15, 0.5]
RenderRegions ==
    {<<0, 0>>, <<0, 2>>, <<40, 100>>, <<0, 200>>, <<0, 80>>, <<3, 10>>, <<7, 7>>}

RenderSpeeds == {MinSpeed, 10, 13, MaxSpeed}

RenderPitches == {-MaxPitch, -7, -1, 0, 1, 5, MaxPitch}

RenderVolumes == {MinVolume, 10, MaxVolume}

RenderFades == {0, 10, MaxFade, 100}

\* the decoded source: ten seconds, mono at 44100 Hz or stereo at 8000 Hz
RenderBuffers ==
    {[numberOfChannels |-> 1, sampleRate |-> 44100, length |-> 441000],
     [numberOfChannels |-> 2, sampleRate |-> 8000, length |-> 80000]}

RenderInputs ==
    [region : RenderRegions, speed : RenderSpeeds, pitch : RenderPitches,
     volume : RenderVolumes, fadeIn : RenderFades, fadeOut : RenderFades,
     buffer : RenderBuffers]

RenderInit ==
    /\ rin \in RenderInputs
    /\ rout = IdleResult
    /\ win = IdleResult
    /\ wout = IdleResult
    /\ min = IdleResult
    /\ mout = IdleResult
    /\ Mounted(rin.buffer, FALSE)

Render ==
    /\ rout = IdleResult
    /\ rout' = ProcessAudioRegion(rin.region[1], rin.region[2], rin.speed, rin.pitch,
                                  rin.volume, rin.fadeIn, rin.fadeOut, rin.buffer)
    /\ rin' = [rin EXCEPT !.buffer = AfterStores(@, RenderStores)]
    /\ UNCHANGED <<wavVars, mp3Vars, editorVars>>

RenderNext == Render

SpecRender == RenderInit /\ [][RenderNext]_vars

----------------------------------------------------------------------------
(* Properties of the renderer (checked under SpecRender)                   *)

Rendered == rout.kind = "buffer"

\* 0 <= start < end <= source duration, speed and pitch within the sliders' ranges
ValidRenderInput ==
    /\ 0 <= rin.region[1]
    /\ rin.region[1] < rin.region[2]
    /\ rin.region[2] * (rin.buffer.sampleRate \div 20) <= rin.buffer.length
    /\ rin.speed \in MinSpeed..MaxSpeed
    /\ rin.pitch \in -MaxPitch..MaxPitch

\* (end - start) / (speed * 2^(pitch/12)) in seconds, written out from the inputs
StatedDuration ==
    Rat((rin.region[2] - rin.region[1]) * 500,
        rin.speed * DetuneTable[rin.pitch + MaxPitch + 1])

HalfOutput == RDiv(rout.outputDuration, RInt(2))

RequestedVolume == Rat(rin.volume, 10)

\* C1: for every valid region and every speed and pitch in range, the length of
\* the rendered buffer differs by at most one sample from
\* round((end - start) / (speed * 2^(pitch/12)) * sampleRate).
C1_LengthWithinOneOfRound ==
    (ValidRenderInput /\ rout # IdleResult) =>
        /\ Rendered
        /\ Abs(rout.length - RoundTimes(StatedDuration, rin.buffer.sampleRate)) <= 1

\* a render whose truncated length is one below the rounded one
C1_Witness ==
    /\ ValidRenderInput
    /\ Rendered
    /\ rout.length = RoundTimes(StatedDuration, rin.buffer.sampleRate) - 1

\* C2: the output duration is (end - start) / (speed * 2^(pitch/12)); speed and
\* pitch multiply into one rate, so region [0,10] lasts 5.0 s both at speed 2.0,
\* pitch 0 and at speed 1.0, pitch 12.
C2_OutputDuration ==
    Rendered =>
        /\ RMul(rout.outputDuration,
                RMul(Rat(rin.speed, 10), Pow2Twelfths(rin.pitch)))
             = Rat(rin.region[2] - rin.region[1], 20)
        /\ (/\ rin.region = <<0, 200>>
            /\ <<rin.speed, rin.pitch>> \in {<<20, 0>>, <<10, 12>>})
           => /\ rout.outputDuration = RInt(5)
              /\ rout.length = 5 * rout.sampleRate

\* region [0,10] rendered at speed 1.0 and pitch +12
C2_Witness ==
    /\ Rendered
    /\ rin.region = <<0, 200>>
    /\ rin.speed = 10
    /\ rin.pitch = 12
    /\ rout.outputDuration = RInt(5)

\* C4: the scheduled gain is 0 at t = 0 when fadeInDuration > 0 and volume
\* otherwise; it is 0 at t = outputDuration when fadeOutDuration > 0 and volume
\* otherwise.
C4_EnvelopeEndpoints ==
    Rendered =>
        /\ GainAt(rout.gain, RInt(0))
             = (IF rin.fadeIn > 0 THEN RInt(0) ELSE RequestedVolume)
        /\ GainAt(rout.gain, rout.outputDuration)
             = (IF rin.fadeOut > 0 THEN RInt(0) ELSE RequestedVolume)

\* a render with no fade-in and a fade-out: volume at the start, 0 at the end
C4_Witness ==
    /\ Rendered
    /\ rin.fadeIn = 0
    /\ rin.fadeOut > 0
    /\ GainAt(rout.gain, RInt(0)) = RequestedVolume
    /\ GainAt(rout.gain, rout.outputDuration) = RInt(0)

\* the times at which a ramp up to the volume ends
RampUpEnds ==
    {rout.gain[i].time : i \in {j \in 1..Len(rout.gain) :
        /\ rout.gain[j].type = "linearRampToValueAtTime"
        /\ rout.gain[j].value # RInt(0)}}

\* the times at which a ramp down to 0 starts: the time of the event before it
RampDownStarts ==
    {rout.gain[i - 1].time : i \in {j \in 2..Len(rout.gain) :
        /\ rout.gain[j].type = "linearRampToValueAtTime"
        /\ rout.gain[j].value = RInt(0)}}

\* C5: the fade-in ramp ends no later than outputDuration / 2 and the fade-out
\* ramp starts no earlier than outputDuration / 2; each effective fade length is
\* min(requested, outputDuration / 2), so a 10 s request on a 4 s output gives a
\* ramp of exactly 2 s.
C5_FadesClamped ==
    Rendered =>
        /\ RampUpEnds =
             (IF rin.fadeIn > 0
              THEN {RMin(Rat(rin.fadeIn, 10), HalfOutput)} ELSE {})
        /\ RampDownStarts =
             (IF rin.fadeOut > 0
              THEN {RSub(rout.outputDuration, RMin(Rat(rin.fadeOut, 10), HalfOutput))}
              ELSE {})
        /\ \A t \in RampUpEnds : RLe(t, HalfOutput)
        /\ \A t \in RampDownStarts : RLe(HalfOutput, t)
        /\ (rout.outputDuration = RInt(4) /\ rin.fadeIn = 100) => RampUpEnds = {RInt(2)}
        /\ (rout.outputDuration = RInt(4) /\ rin.fadeOut = 100) => RampDownStarts = {RInt(2)}

\* 10 s fades requested on a 4 s output: both ramps meet at 2 s
C5_Witness ==
    /\ Rendered
    /\ rout.outputDuration = RInt(4)
    /\ rin.fadeIn = 100
    /\ rin.fadeOut = 100
    /\ RampUpEnds = {RInt(2)}
    /\ RampDownStarts = {RInt(2)}

ProbeGrid == 8
ProbeTenths == 30

\* output times at which the envelope is sampled: a grid over [0, outputDuration]
\* and the multiples of 0.1 s up to ProbeTenths
ProbeTimes ==
    {RMul(rout.outputDuration, Rat(k, ProbeGrid)) : k \in 0..ProbeGrid}
    \cup {Rat(k, 10) : k \in {j \in 0..ProbeTenths : RLe(Rat(j, 10), rout.outputDuration)}}

StatedFadeIn == IF rin.fadeIn > 0 THEN RMin(Rat(rin.fadeIn, 10), HalfOutput) ELSE RInt(0)

StatedFadeOut == IF rin.fadeOut > 0 THEN RMin(Rat(rin.fadeOut, 10), HalfOutput) ELSE RInt(0)

\* C6: between the end of the fade-in ramp and the start of the fade-out ramp the
\* gain equals volume, and the two ramps are linear; for region [2.0,5.0], speed 1,
\* pitch 0, both fades 1.0 s, volume 1.0 the gain rises 0 to 1 over 0-1 s, is 1.0
\* over 1-2 s and falls 1 to 0 over 2-3 s.
C6_EnvelopeShape ==
    Rendered =>
        /\ \A t \in ProbeTimes :
              LET g == GainAt(rout.gain, t)
                  fadeOutStart == RSub(rout.outputDuration, StatedFadeOut)
              IN  /\ (RLe(StatedFadeIn, t) /\ RLe(t, fadeOutStart)) => g = RequestedVolume
                  /\ RLt(t, StatedFadeIn) =>
                        g = RMul(RequestedVolume, RDiv(t, StatedFadeIn))
                  /\ RLt(fadeOutStart, t) =>
                        g = RMul(RequestedVolume,
                                 RDiv(RSub(rout.outputDuration, t), StatedFadeOut))
        /\ (/\ rin.region = <<40, 100>> /\ rin.speed = 10 /\ rin.pitch = 0
            /\ rin.fadeIn = 10 /\ rin.fadeOut = 10 /\ rin.volume = 10)
           => /\ rout.outputDuration = RInt(3)
              /\ \A k \in 0..10 : GainAt(rout.gain, Rat(k, 10)) = Rat(k, 10)
              /\ \A k \in 10..20 : GainAt(rout.gain, Rat(k, 10)) = RInt(1)
              /\ \A k \in 20..30 : GainAt(rout.gain, Rat(k, 10)) = Rat(30 - k, 10)

\* the scenario's render, half way up the fade-in and half way down the fade-out
C6_Witness ==
    /\ Rendered
    /\ rin.region = <<40, 100>> /\ rin.speed = 10 /\ rin.pitch = 0
    /\ rin.fadeIn = 10 /\ rin.fadeOut = 10 /\ rin.volume = 10
    /\ GainAt(rout.gain, Rat(5, 10)) = Rat(1, 2)
    /\ GainAt(rout.gain, Rat(15, 10)) = RInt(1)
    /\ GainAt(rout.gain, Rat(25, 10)) = Rat(1, 2)

\* the render kept the channel count and the sample rate of the source
SameLayoutAsSource ==
    /\ rout.numberOfChannels = rin.buffer.numberOfChannels
    /\ rout.sampleRate = rin.buffer.sampleRate

\* as stated: the rendered buffer has round(outputDuration * sampleRate) samples
C17_AsStated ==
    (ValidRenderInput /\ Rendered) =>
        /\ rout.length = RoundTimes(StatedDuration, rin.buffer.sampleRate)
        /\ SameLayoutAsSource

\* C17: the rendered buffer has outputDuration * sampleRate samples per channel
\* with the fraction cut off (the rounded number, or one below it), and the
\* channel count and the sample rate of the source buffer
C17_AllocatedLength ==
    (ValidRenderInput /\ rout # IdleResult) =>
        /\ Rendered
        /\ rout.length = TruncTimes(StatedDuration, rin.buffer.sampleRate)
        /\ rout.length \in {RoundTimes(StatedDuration, rin.buffer.sampleRate),
                            RoundTimes(StatedDuration, rin.buffer.sampleRate) - 1}
        /\ SameLayoutAsSource

\* a stereo render whose length is one below the rounded number
C17_Witness ==
    /\ ValidRenderInput
    /\ Rendered
    /\ rout.numberOfChannels = 2
    /\ rout.length + 1 = RoundTimes(StatedDuration, rin.buffer.sampleRate)

\* the effect settings lie within the ranges of their sliders
EffectsInRange ==
    /\ rin.speed \in MinSpeed..MaxSpeed
    /\ rin.pitch \in -MaxPitch..MaxPitch
    /\ rin.volume \in MinVolume..MaxVolume
    /\ rin.fadeIn \in 0..MaxFade
    /\ rin.fadeOut \in 0..MaxFade

\* the probe times and the times of the automation events within the output
EnvelopeTimes ==
    ProbeTimes \cup {rout.gain[i].time : i \in {j \in 1..Len(rout.gain) :
                        RLe(rout.gain[j].time, rout.outputDuration)}}

\* C27: for every valid region and all effect settings in range, the
\* scheduled gain lies within [0, volume] at every output time in
\* [0, outputDuration] (the envelope is linear between its events, each of
\* which is scheduled within that span with a value in [0, volume]), and the
\* fade-in ramp ends no later than the fade-out ramp starts
C27_GainBounded ==
    (ValidRenderInput /\ EffectsInRange /\ Rendered) =>
        /\ \A t \in EnvelopeTimes :
              /\ RLe(RInt(0), GainAt(rout.gain, t))
              /\ RLe(GainAt(rout.gain, t), RequestedVolume)
        /\ \A i \in 1..Len(rout.gain) :
              /\ RLe(RInt(0), rout.gain[i].time)
              /\ RLe(rout.gain[i].time, rout.outputDuration)
              /\ RLe(RInt(0), rout.gain[i].value)
              /\ RLe(rout.gain[i].value, RequestedVolume)
        /\ \A a \in RampUpEnds : \A b \in RampDownStarts : RLe(a, b)

\* both fades asked for longer than half the output: the ramps meet half way,
\* and a quarter of the way in the gain lies strictly between 0 and the volume
C27_Witness ==
    /\ ValidRenderInput
    /\ EffectsInRange
    /\ Rendered
    /\ rin.fadeIn > 0
    /\ rin.fadeOut > 0
    /\ RampUpEnds = {HalfOutput}
    /\ RampDownStarts = {HalfOutput}
    /\ RLt(HalfOutput, Tenths(rin.fadeOut))
    /\ RLt(RInt(0), GainAt(rout.gain, RDiv(rout.outputDuration, RInt(4))))
    /\ RLt(GainAt(rout.gain, RDiv(rout.outputDuration, RInt(4))), RequestedVolume)

----------------------------------------------------------------------------
(* The WAV encoder on its own: every buffer of the bounded family below    *)

MaxChannels == 3
MaxFrames == 2

\* sample values, some of them outside [-1, 1]
SampleValues ==
    <<RInt(0), Rat(1, 3), Rat(-1, 3), RInt(1), RInt(-1), Rat(3, 2), Rat(-3, 2),
      Rat(9999, 10000)>>

WavSampleRates == {8000, 44100}

WavStrides == {1, 3}

\* channel c holds the sample values from position base + (c - 1) * stride on,
\* cyclically, so that every channel and frame carries its own value
PatternBuffer(numChannels, frames, sampleRate, base, stride) ==
    [numberOfChannels |-> numChannels,
     sampleRate |-> sampleRate,
     length |-> frames,
     channels |-> [c \in 1..numChannels |->
                     [i \in 1..frames |->
                        SampleValues[((base + (c - 1) * stride + i - 1)
                                        % Len(SampleValues)) + 1]]]]

\* one second of silence, mono, 44100 Hz
SilentSecond ==
    [numberOfChannels |-> 1,
     sampleRate |-> 44100,
     length |-> 44100,
     channels |-> <<[i \in 1..44100 |-> RInt(0)]>>]

WavBuffers ==
    {SilentSecond} \cup
    {PatternBuffer(x[1], x[2], x[3], x[4], x[5]) :
        x \in (1..MaxChannels) \X (1..MaxFrames) \X WavSampleRates
              \X (0..(Len(SampleValues) - 1)) \X WavStrides}

WavInit ==
    /\ win \in [buffer : WavBuffers, float32 : BOOLEAN]
    /\ wout = IdleResult
    /\ min = IdleResult
    /\ mout = IdleResult
    /\ rin = IdleResult
    /\ rout = IdleResult
    /\ Mounted([numberOfChannels |-> win.buffer.numberOfChannels,
                sampleRate |-> win.buffer.sampleRate,
                length |-> win.buffer.length], FALSE)

\* one call audioBufferToWav(win.buffer, {float32: win.float32})
EncodeWav ==
    /\ wout = IdleResult
    /\ wout' = [kind |-> "blob",
                samples |-> SerializedSamples(win.buffer),
                blob |-> AudioBufferToWav(win.buffer, win.float32)]
    /\ win' = [win EXCEPT !.buffer = AfterStores(@, WavStores(@, win.float32))]
    /\ UNCHANGED <<renderVars, mp3Vars, editorVars>>

WavNext == EncodeWav

SpecWav == WavInit /\ [][WavNext]_vars

----------------------------------------------------------------------------
(* Properties of the WAV encoder (checked under SpecWav)                   *)

Encoded == wout.kind = "blob"

\* what a WAV reader takes out of the bytes
ReadUint16(bytes, offset) == bytes[offset + 1] + 256 * bytes[offset + 2]

ReadUint32(bytes, offset) ==
    bytes[offset + 1] + 256 * bytes[offset + 2] + 65536 * bytes[offset + 3]
        + 16777216 * bytes[offset + 4]

ReadInt16(bytes, offset) ==
    LET u == ReadUint16(bytes, offset)
    IN  IF u >= 32768 THEN u - 65536 ELSE u

ReadString(bytes, offset) == SubSeq(bytes, offset + 1, offset + 4)

\* the float whose four bytes start at the offset, lowest byte first
ReadFloat32(bytes, offset) ==
    IF \A k \in 0..3 : /\ bytes[offset + 1 + k].part = k
                       /\ bytes[offset + 1 + k].f32 = bytes[offset + 1].f32
    THEN bytes[offset + 1].f32
    ELSE [kind |-> "garbled"]

BytesPerSample == IF win.float32 THEN 4 ELSE 2

\* the number of samples of all channels together
InterleavedCount == win.buffer.length * win.buffer.numberOfChannels

StatedDataSize == InterleavedCount * BytesPerSample

MonoOrStereo == win.buffer.numberOfChannels \in {1, 2}

\* the header relations of C7, for every mono or stereo buffer and both formats
HeaderRelations ==
    LET bytes == wout.blob.bytes
    IN  /\ Len(bytes) = 44 + StatedDataSize
        /\ ReadString(bytes, 0) = <<82, 73, 70, 70>>
        /\ ReadUint32(bytes, 4) = 36 + StatedDataSize
        /\ ReadString(bytes, 8) = <<87, 65, 86, 69>>
        /\ ReadString(bytes, 12) = <<102, 109, 116, 32>>
        /\ ReadUint32(bytes, 16) = 16
        /\ ReadUint16(bytes, 20) = (IF win.float32 THEN 3 ELSE 1)
        /\ ReadUint16(bytes, 22) = win.buffer.numberOfChannels
        /\ ReadUint32(bytes, 24) = win.buffer.sampleRate
        /\ ReadUint16(bytes, 32) = win.buffer.numberOfChannels * BytesPerSample
        /\ ReadUint32(bytes, 28) = win.buffer.sampleRate * ReadUint16(bytes, 32)
        /\ ReadUint16(bytes, 34) = (IF win.float32 THEN 32 ELSE 16)
        /\ ReadString(bytes, 36) = <<100, 97, 116, 97>>
        /\ ReadUint32(bytes, 40) = StatedDataSize

\* the fields after the RIFF size of the silent mono second in PCM16
SilentSecondFields ==
    LET bytes == wout.blob.bytes
    IN  /\ ReadUint32(bytes, 16) = 16
        /\ ReadUint16(bytes, 20) = 1
        /\ ReadUint16(bytes, 22) = 1
        /\ ReadUint32(bytes, 24) = 44100
        /\ ReadUint32(bytes, 28) = 88200
        /\ ReadUint16(bytes, 32) = 2
        /\ ReadUint16(bytes, 34) = 16
        /\ ReadUint32(bytes, 40) = 88200

SilentSecondEncoded == Encoded /\ win.buffer = SilentSecond /\ ~win.float32

\* C7 as stated: the header relations hold and, for the mono 1-second 44100 Hz
\* buffer in PCM16, the header reads RIFF size 88244, then 16, 1, 1, 44100,
\* 88200, 2, 16, 88200.
C7_AsStated ==
    (Encoded /\ MonoOrStereo) =>
        /\ HeaderRelations
        /\ SilentSecondEncoded =>
              /\ ReadUint32(wout.blob.bytes, 4) = 88244
              /\ SilentSecondFields

\* C7 (amended): the header relations hold for every mono or stereo buffer and
\* both formats; for the mono 1-second 44100 Hz buffer in PCM16 the file is
\* 88244 bytes long and its RIFF size field reads 88236 = 36 + 88200, followed
\* by 16, 1, 1, 44100, 88200, 2, 16, 88200.
C7_Header ==
    (Encoded /\ MonoOrStereo) =>
        /\ HeaderRelations
        /\ SilentSecondEncoded =>
              /\ Len(wout.blob.bytes) = 88244
              /\ ReadUint32(wout.blob.bytes, 4) = 88236
              /\ SilentSecondFields

\* the silent second encoded to PCM16
C7_Witness ==
    /\ SilentSecondEncoded
    /\ Len(wout.blob.bytes) = 88244
    /\ ReadUint32(wout.blob.bytes, 4) = 88236
    /\ ReadUint32(wout.blob.bytes, 40) = 88200

\* the 16-bit integer stored for serialized sample k (from 1)
StoredInt16(k) == ReadInt16(wout.blob.bytes, 44 + 2 * (k - 1))

\* s clamped to [-1, 1], written out
StatedClamp(s) ==
    IF RLt(RInt(1), s) THEN RInt(1) ELSE IF RLt(s, RInt(-1)) THEN RInt(-1) ELSE s

\* trunc(c * 32768) for c < 0, trunc(c * 32767) otherwise
StatedQuantum(s) ==
    LET c == StatedClamp(s)
    IN  IF c[1] < 0 THEN Trunc(Rat(c[1] * 32768, c[2]))
        ELSE Trunc(Rat(c[1] * 32767, c[2]))

\* C8: for every sample s, also outside [-1,1], the 16-bit value written by the
\* PCM16 path is trunc(c * 32768) when c < 0 and trunc(c * 32767) otherwise,
\* c being s clamped to [-1,1]; it lies in [-32768, 32767], and an
\* out-of-range sample saturates instead of wrapping around.
C8_Quantization ==
    (Encoded /\ ~win.float32) =>
        \A k \in 1..Len(wout.samples) :
            LET s == wout.samples[k]
            IN  /\ StoredInt16(k) = StatedQuantum(s)
                /\ StoredInt16(k) \in -32768..32767
                /\ RLe(RInt(1), s) => StoredInt16(k) = 32767
                /\ RLe(s, RInt(-1)) => StoredInt16(k) = -32768

\* a sample above 1 and a sample below -1 stored at the two ends of the range
C8_Witness ==
    /\ Encoded
    /\ ~win.float32
    /\ \E k \in 1..Len(wout.samples) :
          wout.samples[k] = Rat(3, 2) /\ StoredInt16(k) = 32767
    /\ \E k \in 1..Len(wout.samples) :
          wout.samples[k] = Rat(-3, 2) /\ StoredInt16(k) = -32768

\* a standard WAV reader's float for a stored 16-bit integer
StandardDecode16(v) == Rat(v, 32768)

RoundTripError(k) == RSub(wout.samples[k], StandardDecode16(StoredInt16(k)))

RAbs(a) == <<Abs(a[1]), a[2]>>

InUnitRange(s) == RLe(RInt(-1), s) /\ RLe(s, RInt(1))

\* C9 as stated: for every sample s in [-1,1] the value read back differs from
\* s by at most one quantization step, 1/32767.
C9_AsStated ==
    (Encoded /\ ~win.float32) =>
        \A k \in 1..Len(wout.samples) :
            InUnitRange(wout.samples[k]) =>
                RLe(RAbs(RoundTripError(k)), Rat(1, 32767))

\* C9 (amended): for every sample s in [-1,1] the value read back differs from
\* s by less than two quantization steps, 2/32768, and by less than one step,
\* 1/32768, when s <= 0.
C9_RoundTrip ==
    (Encoded /\ ~win.float32) =>
        \A k \in 1..Len(wout.samples) :
            LET s == wout.samples[k]
            IN  InUnitRange(s) =>
                  /\ RLt(RAbs(RoundTripError(k)), Rat(2, 32768))
                  /\ RLe(s, RInt(0)) => RLt(RAbs(RoundTripError(k)), Rat(1, 32768))

\* 0.9999 is stored as 32763 and read back more than 1/32767 below it
C9_Witness ==
    /\ Encoded
    /\ ~win.float32
    /\ \E k \in 1..Len(wout.samples) :
          /\ wout.samples[k] = Rat(9999, 10000)
          /\ StoredInt16(k) = 32763
          /\ RLt(Rat(1, 32767), RAbs(RoundTripError(k)))

\* C10: for a stereo buffer of N frames the serialized sample sequence has
\* length 2N, element 2i being channel 0's sample i and element 2i+1 channel 1's
\* sample i; for a mono buffer it is channel 0 unchanged.
C10_Interleaving ==
    Encoded =>
        LET N == win.buffer.length
            ch == win.buffer.channels
            bytes == wout.blob.bytes
        IN  /\ win.buffer.numberOfChannels = 2 =>
                /\ Len(wout.samples) = 2 * N
                /\ \A i \in 0..(N - 1) :
                      /\ wout.samples[2 * i + 1] = ch[1][i + 1]
                      /\ wout.samples[2 * i + 2] = ch[2][i + 1]
                /\ win.float32 =>
                      /\ Len(bytes) = 44 + 8 * N
                      /\ \A i \in 0..(N - 1) :
                            /\ ReadFloat32(bytes, 44 + 8 * i) = ch[1][i + 1]
                            /\ ReadFloat32(bytes, 44 + 8 * i + 4) = ch[2][i + 1]
            /\ win.buffer.numberOfChannels = 1 =>
                /\ wout.samples = ch[1]
                /\ win.float32 =>
                      \A i \in 0..(N - 1) : ReadFloat32(bytes, 44 + 4 * i) = ch[1][i + 1]

\* a stereo buffer of two or more frames whose channels differ, serialized
C10_Witness ==
    /\ Encoded
    /\ win.float32
    /\ win.buffer.numberOfChannels = 2
    /\ win.buffer.length >= 2
    /\ win.buffer.channels[1] # win.buffer.channels[2]
    /\ wout.samples[2] = win.buffer.channels[2][1]
    /\ wout.samples[3] = win.buffer.channels[1][2]

\* C21: for a buffer of any channel count the header audioBufferToWav writes
\* is consistent with its data: blockAlign is the header's channel count times
\* the bytes per sample, the data chunk size is frames * blockAlign, and the
\* data chunk has that many bytes
C21_HeaderMatchesData ==
    Encoded =>
        LET bytes == wout.blob.bytes
            blockAlign == ReadUint16(bytes, 32)
        IN  /\ blockAlign = ReadUint16(bytes, 22) * (ReadUint16(bytes, 34) \div 8)
            /\ ReadUint32(bytes, 40) = win.buffer.length * blockAlign
            /\ Len(bytes) - 44 = ReadUint32(bytes, 40)

----------------------------------------------------------------------------
(* The MP3 adapter on its own: every buffer of the bounded family below,   *)
(* with and without window.lamejs, whatever the encoder returns            *)

\* the samples of one MPEG-1 Layer III frame, the block size of the lamejs examples
Mp3BlockSize == 1152

\* a mono buffer one sample longer than a block
LongBuffer ==
    [numberOfChannels |-> 1,
     sampleRate |-> 44100,
     length |-> Mp3BlockSize + 1,
     channels |-> <<[i \in 1..(Mp3BlockSize + 1) |-> SampleValues[(i % Len(SampleValues)) + 1]]>>]

Mp3Buffers ==
    {LongBuffer} \cup
    {PatternBuffer(x[1], x[2], x[3], x[4], x[5]) :
        x \in (1..MaxChannels) \X (1..MaxFrames) \X WavSampleRates
              \X (0..(Len(SampleValues) - 1)) \X WavStrides}

Mp3Init ==
    /\ min \in [buffer : Mp3Buffers, lame : BOOLEAN, encodedEmpty : BOOLEAN,
                flushEmpty : BOOLEAN]
    /\ mout = IdleResult
    /\ rin = IdleResult
    /\ rout = IdleResult
    /\ win = IdleResult
    /\ wout = IdleResult
    /\ Mounted([numberOfChannels |-> min.buffer.numberOfChannels,
                sampleRate |-> min.buffer.sampleRate,
                length |-> min.buffer.length], min.lame)

\* one call audioBufferToMp3(min.buffer)
EncodeMp3 ==
    /\ mout = IdleResult
    /\ mout' = AudioBufferToMp3(min.buffer, min.lame, min.encodedEmpty, min.flushEmpty)
    /\ min' = [min EXCEPT !.buffer = AfterStores(@, Mp3Stores(@, min.lame))]
    /\ UNCHANGED <<renderVars, wavVars, editorVars>>

Mp3Next == EncodeMp3

SpecMp3 == Mp3Init /\ [][Mp3Next]_vars

----------------------------------------------------------------------------
(* Properties of the MP3 adapter (checked under SpecMp3)                   *)

Mp3Encoded == mout.kind = "blob"

\* the sample arrays handed over by the encodeBuffer calls, in call order
EncodeCalls == SelectSeq(mout.calls, LAMBDA c : c.op = "encodeBuffer")

\* as stated: the channel arrays are handed over in blocks of a fixed size (at
\* most one frame of samples), and the last part of the blob is the flush block
C12_AsStated ==
    Mp3Encoded =>
        /\ \E size \in 1..Mp3BlockSize :
              \A k \in 1..Len(EncodeCalls) :
                  \A a \in 1..Len(EncodeCalls[k].args) :
                      Len(EncodeCalls[k].args[a]) <= size
        /\ mout.parts # <<>>
        /\ mout.parts[Len(mout.parts)].from = "flush"

\* C12: the MP3 adapter hands each channel array whole to the encoder in one
\* encodeBuffer call (the left channel, and the right one of a stereo buffer),
\* then calls flush; the parts of the blob are what encodeBuffer returned, when
\* not empty, followed by what flush returned, when not empty
C12_OneCallThenFlush ==
    Mp3Encoded =>
        /\ Len(mout.calls) = 2
        /\ mout.calls[1].op = "encodeBuffer"
        /\ mout.calls[2].op = "flush"
        /\ Len(mout.calls[1].args) = (IF min.buffer.numberOfChannels = 2 THEN 2 ELSE 1)
        /\ \A a \in 1..Len(mout.calls[1].args) :
              Len(mout.calls[1].args[a]) = min.buffer.length
        /\ LET frames == [from |-> "encodeBuffer", input |-> mout.calls[1].args,
                          empty |-> FALSE]
               last == [from |-> "flush", input |-> <<>>, empty |-> FALSE]
           IN  mout.parts = (IF min.encodedEmpty THEN <<>> ELSE <<frames>>)
                            \o (IF min.flushEmpty THEN <<>> ELSE <<last>>)

\* a buffer longer than one block has been encoded, both blocks returned
C12_Witness ==
    /\ Mp3Encoded
    /\ min.buffer.length > Mp3BlockSize
    /\ Len(mout.parts) = 2

\* the channels audioBufferToMp3 converts: two of a stereo buffer, else the first
ConvertedChannels == IF min.buffer.numberOfChannels = 2 THEN {1, 2} ELSE {1}

\* the Int16 the encoder is handed for frame i of channel c
Handed(c, i) == mout.calls[1].args[c][i]

\* C13: every Int16 the MP3 path hands to the encoder is
\* trunc(clamp(s, -1, 1) * 32767.5), lies in [-32767, 32767] and is stored
\* without wrapping; for s = -1 it is -32767 where the WAV PCM16 path stores -32768
C13_Mp3Quantization ==
    Mp3Encoded =>
        \A c \in ConvertedChannels :
            \A i \in 1..min.buffer.length :
                LET s == min.buffer.channels[c][i]
                    scaled == RMul(Clamp(s), Rat(65535, 2))
                IN  /\ Handed(c, i) = Trunc(scaled)
                    /\ Handed(c, i) >= -32767
                    /\ Handed(c, i) <= 32767
                    /\ (s = RInt(-1)) =>
                          /\ Handed(c, i) = -32767
                          /\ ToInt16(ScaleSample(s)) = -32768
                    /\ (s = RInt(1)) => Handed(c, i) = 32767

\* a buffer holding -1, 1 and a sample beyond 1 has been converted
C13_Witness ==
    /\ Mp3Encoded
    /\ \E c \in ConvertedChannels, i \in 1..min.buffer.length :
          min.buffer.channels[c][i] = RInt(-1)
    /\ \E c \in ConvertedChannels, i \in 1..min.buffer.length :
          RLt(RInt(1), min.buffer.channels[c][i]) /\ Handed(c, i) = 32767

----------------------------------------------------------------------------
(* The three functions side by side: one call of processAudioRegion, of    *)
(* audioBufferToWav or of audioBufferToMp3 on an input of its family       *)

FrameInit == RenderInit \/ WavInit \/ Mp3Init

FrameNext ==
    \/ rin # IdleResult /\ Render
    \/ win # IdleResult /\ EncodeWav
    \/ min # IdleResult /\ EncodeMp3

SpecFrame == FrameInit /\ [][FrameNext]_vars

\* the buffer a call was made on: all of its fields, the sample values included
InputBuffer(input) == IF input = IdleResult THEN IdleResult ELSE input.buffer

\* the call whose result is in the state has returned a new object
ResultIsNew ==
    /\ Rendered => RenderedArrays \cap InputArrays(rin.buffer) = {}
    /\ wout # IdleResult => WavBlobParts \cap InputArrays(win.buffer) = {}
    /\ mout # IdleResult => Mp3BlobParts \cap InputArrays(min.buffer) = {}

\* C19: a call of processAudioRegion, audioBufferToWav or audioBufferToMp3
\* leaves the buffer it was made on as it was (channel count, sample rate,
\* length and every sample value), whether it returns or throws, and what it
\* returns is made of none of the buffer's own arrays
C19_InputUnchanged ==
    /\ [][/\ InputBuffer(rin)' = InputBuffer(rin)
          /\ InputBuffer(win)' = InputBuffer(win)
          /\ InputBuffer(min)' = InputBuffer(min)]_vars
    /\ []ResultIsNew

\* a mono buffer with a sample beyond full scale has been encoded to 16-bit
\* WAV (the samples handed to encodeWAV are the buffer's own channel 0), or a
\* stereo buffer has been encoded to MP3
C19_Witness ==
    \/ /\ wout # IdleResult
       /\ ~win.float32
       /\ win.buffer.numberOfChannels = 1
       /\ SamplesArray(win.buffer) \in InputArrays(win.buffer)
       /\ \E i \in 1..win.buffer.length : win.buffer.channels[1][i] = Rat(3, 2)
    \/ /\ mout # IdleResult
       /\ mout.kind = "blob"
       /\ min.buffer.numberOfChannels = 2

====
